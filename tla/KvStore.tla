------------------------------ MODULE KvStore ------------------------------
(***************************************************************************)
(* What the key/value store of components/fs/kv promises its callers: a    *)
(* durable map.  A request is applied at once and in full, or not at all;  *)
(* a power loss may hit a pending request before or after it takes effect, *)
(* and never touches any other key.  LnKv implements this specification.   *)
(***************************************************************************)
CONSTANTS
  Keys,      \* the keys in use
  Values,    \* the values in use
  Absent     \* "no value stored"; not one of Values

VARIABLES
  store,     \* the durable content
  req,       \* the pending request
  res,       \* the result of the last completed request
  up         \* has ln_kv_init finished since the last power-up?

storeVars == <<store, req, res, up>>

Requests == [type : {"set"}, key : Keys, val : Values]
              \cup [type : {"del", "get"}, key : Keys, val : {Absent}]

NoRequest == [type |-> "none", key |-> Absent, val |-> Absent]

NoResult == [code |-> "none", val |-> Absent]

\* The content once request r has taken effect.
Applied(r) ==
  CASE r.type = "set" -> [store EXCEPT ![r.key] = r.val]
    [] r.type = "del" -> [store EXCEPT ![r.key] = Absent]
    [] OTHER          -> store

Init ==
  /\ store = [k \in Keys |-> Absent]
  /\ req = NoRequest
  /\ res = NoResult
  /\ up = FALSE

Boot ==
  /\ ~up
  /\ up' = TRUE
  /\ UNCHANGED <<req, res, store>>

Call(r) ==
  /\ up
  /\ req = NoRequest
  /\ req' = r
  /\ res' = NoResult
  /\ UNCHANGED <<store, up>>

Finish(code, val) ==
  /\ req' = NoRequest
  /\ res' = [code |-> code, val |-> val]
  /\ UNCHANGED up

\* KV_ERR_NONE from set or del: the request has taken effect.
Succeed ==
  /\ req.type \in {"set", "del"}
  /\ Finish("ok", Absent)
  /\ req.type = "del" => store[req.key] # Absent
  /\ store' = Applied(req)

\* KV_ERR_INSUFFICIENT_SPACE from set: nothing has changed.
NoSpace ==
  /\ req.type = "set"
  /\ Finish("full", Absent)
  /\ UNCHANGED store

\* KV_ERR_NOT_EXIST from del or get: there was nothing under the key.
NotExist ==
  /\ req.type \in {"del", "get"}
  /\ Finish("absent", Absent)
  /\ store[req.key] = Absent
  /\ UNCHANGED store

\* KV_ERR_NONE from get: the value is the stored one.
Fetched ==
  /\ req.type = "get"
  /\ store[req.key] # Absent
  /\ Finish("ok", store[req.key])
  /\ UNCHANGED store

PowerLoss ==
  /\ req' = NoRequest
  /\ res' = NoResult
  /\ up' = FALSE
  /\ store' \in {store, Applied(req)}

Next ==
  \/ Boot
  \/ \E r \in Requests : Call(r)
  \/ Succeed
  \/ NoSpace
  \/ NotExist
  \/ Fetched
  \/ PowerLoss

Spec == Init /\ [][Next]_storeVars

=============================================================================
