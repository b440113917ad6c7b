--------------------------- MODULE EmailOwnership ----------------------------
(***************************************************************************)
(* What the account directory promises, without tables, index or requests: *)
(* an address has at most one owner, an account only moves to an address   *)
(* after links sent to its present and to its next address were used, and  *)
(* an account only disappears in favour of such a move to its address.     *)
(***************************************************************************)
CONSTANTS Accounts, Addresses

VARIABLES
    owner,   \* the address of each account, or "unborn" or "gone"
    proved   \* <<account, which end, address>>: the link was used

Free(e) == \A u \in Accounts : owner[u] # e

\* account u may become the owner of e
Entitled(u, e) == /\ <<u, "current", owner[u]>> \in proved
                  /\ <<u, "new", e>> \in proved

Init == /\ owner \in [Accounts -> Addresses \cup {"unborn"}]
        /\ \A u, v \in Accounts : owner[u] = owner[v] => u = v \/ owner[u] = "unborn"
        /\ proved \subseteq Accounts \X {"current", "new"} \X Addresses

Create(u, e) == /\ owner[u] = "unborn" /\ Free(e)
                /\ owner' = [owner EXCEPT ![u] = e]
                /\ UNCHANGED proved

Prove(u, end, e) == /\ proved' = proved \cup {<<u, end, e>>}
                    /\ UNCHANGED owner

Move(u, e) == /\ owner[u] \in Addresses /\ Free(e) /\ Entitled(u, e)
              /\ owner' = [owner EXCEPT ![u] = e]
              /\ UNCHANGED proved

Close(v) == /\ \E u \in Accounts \ {v} : Entitled(u, owner[v])
            /\ owner' = [owner EXCEPT ![v] = "gone"]
            /\ UNCHANGED proved

Next == \/ \E u \in Accounts, e \in Addresses :
              \/ Create(u, e) \/ Move(u, e)
              \/ \E end \in {"current", "new"} : Prove(u, end, e)
        \/ \E v \in Accounts : Close(v)

Spec == Init /\ [][Next]_<<owner, proved>>

==============================================================================
