SPECIFICATION FairSpec
CONSTANTS
  c1 = c1
  c2 = c2
  r1 = r1
  r2 = r2
  b1 = b1
  Clients = {c1, c2}
  Runners = {r1, r2}
  Barriers = {b1}
  Weights = {1, 3}
  MaxAdmitted = 2
  ByteBudget = 2
  MaxDrainRequests = 2
  MaxDrainBytes = 2
  MaxTicket = 3
INVARIANTS TypeOK SingleRunner TicketsContiguous PermitsConserved AcksMatchMemtable BarrierSeesAdmitted
PROPERTY AdmittedCompletes BarrierReturns
