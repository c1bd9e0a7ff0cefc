----------------------------- MODULE RequestGate -----------------------------
(***************************************************************************)
(* SecurityMiddleware of one API process: authentication, roles, and a     *)
(* sliding window that counts the accepted requests of a key.              *)
(***************************************************************************)
EXTENDS Integers, Sequences

CONSTANTS
  Identity,      \* names of api_keys
  Host,          \* client hosts
  NoIdentity,    \* no key, or an unknown one
  NoHost,        \* a request without a client
  RolesOf,       \* api_roles
  Limit,         \* rate_limit_requests
  Window,        \* rate_limit_window_seconds
  Horizon        \* bound: the last second of a behaviour

ASSUME GateAssumption ==
  Limit \in Nat \ {0} /\ Window \in Nat \ {0} /\ Horizon \in Nat

VARIABLES
  authRequired,  \* api_auth_enabled or is_production
  clock,         \* seconds of time.monotonic
  buckets,       \* _requests
  admitted       \* history: when requests of a key were let through
gateVars == <<authRequired, clock, buckets, admitted>>

\* Requests to /health and /ready pass unseen.
Kind == {"metrics", "read", "decide", "write"}
Key == Identity \cup Host \cup {"unknown"}

\* identity or request.client.host if request.client else "unknown"
KeyOf(identity, host) ==
  IF host = NoHost THEN "unknown"
  ELSE IF identity # NoIdentity THEN identity ELSE host

\* "operator" may change things, "approver" decide approvals, any may read.
Authorized(identity, kind) ==
  LET roles == RolesOf[identity] IN
  \/ "admin" \in roles
  \/ kind = "read" /\ roles \cap {"viewer", "operator", "approver"} # {}
  \/ kind = "decide" /\ "approver" \in roles
  \/ kind = "write" /\ "operator" \in roles

\* The oldest requests are dropped from the left of the bucket, up to the first
\* one of the last Window seconds; whether one more is too many.
StopsAt(bucket, n, boundary) ==
  /\ \A i \in 1 .. n : bucket[i] <= boundary
  /\ n < Len(bucket) => bucket[n + 1] > boundary
Expired(bucket, boundary) ==
  CHOOSE n \in 0 .. Len(bucket) : StopsAt(bucket, n, boundary)
Recent(k) ==
  SubSeq(buckets[k], Expired(buckets[k], clock - Window) + 1, Len(buckets[k]))
Overfull(k) == Len(Recent(k)) > Limit
Full(k) == Len(Recent(k)) >= Limit

\* 401 and 403 leave the bucket alone, 429 only forgets what is old.
Dispatch(identity, host, kind) ==
  LET k == KeyOf(identity, host) IN
  /\ authRequired => identity # NoIdentity /\ Authorized(identity, kind)
  /\ IF Full(k)
     THEN /\ buckets' = [buckets EXCEPT ![k] = Recent(k)]
          /\ UNCHANGED admitted
     ELSE /\ buckets' = [buckets EXCEPT ![k] = Append(Recent(k), clock)]
          /\ admitted' = [admitted EXCEPT ![k] = Append(@, clock)]
  /\ UNCHANGED <<authRequired, clock>>

Tick ==
  /\ clock < Horizon
  /\ clock' = clock + 1
  /\ UNCHANGED <<authRequired, buckets, admitted>>

GateInit ==
  /\ authRequired \in BOOLEAN
  /\ clock = 0
  /\ buckets = [k \in Key |-> <<>>]
  /\ admitted = [k \in Key |-> <<>>]
GateNext ==
  \/ \E identity \in Identity \cup {NoIdentity}, host \in Host \cup {NoHost},
        kind \in Kind : Dispatch(identity, host, kind)
  \/ Tick
GateSpec == GateInit /\ [][GateNext]_gateVars

\* However its requests are spaced, a key is let through at most Limit times in
\* any Window seconds, and exactly those times are still in its bucket.
WindowHolds ==
  \A k \in Key : LET times == admitted[k] IN
    /\ \A i \in 1 .. Len(times) - Limit : times[i + Limit] - times[i] >= Window
    /\ \E n \in 0 .. Len(times) :
         /\ Recent(k) = SubSeq(times, n + 1, Len(times))
         /\ \A i \in 1 .. Len(times) : i > n <=> times[i] > clock - Window
=============================================================================
