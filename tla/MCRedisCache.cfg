\* One goroutine in a Clear or a listing; the saves, removals and expiries of
\* the others are actions without a caller.
CONSTANTS
  Uid = {u1, u2, u3}
  Version = {v1, v2}
  Caller = {c1}
  MaxFailures = 1
SPECIFICATION MCSpec
INVARIANTS TypeOK
PROPERTIES ClearedAreGone ListingComplete CallsReturn
