SPECIFICATION AccessSpec
CONSTANTS
    Account = {u1, u2, u3}
    Founder = u1
    Team = {t1}
CHECK_DEADLOCK FALSE
INVARIANT AdministratorRemains
