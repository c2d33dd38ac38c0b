\* Copies of deliveries arrive late, and Redis is slow.
CONSTANTS
    c1 = c1  c2 = c2  e1 = e1
    Events = {e1}
    Calls = {c1, c2}
    Window = 3
    Ttl = 6
    Skew = 1
    Delay = 1
    Failures = {"redis", "crash"}
    Horizon = 9
SPECIFICATION Spec
INVARIANTS ClaimsApart DeliveryOnce RefusalsExpire
SYMMETRY Symmetry
\* At the horizon the clock stops.
CHECK_DEADLOCK FALSE
