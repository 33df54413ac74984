------------------------------ MODULE KeyLocks ------------------------------
(* What the cache promises those that use it: the page of a key can be     *)
(* held by many that read it or by one that writes it.  PageCache          *)
(* implements this.                                                        *)
CONSTANTS Keys,      \* what pages are looked for by
          Users      \* threads and i/o requests that hold a page

VARIABLE mode        \* for each key and user, how the user holds the page

Init == mode = [k \in Keys |-> [u \in Users |-> "NL"]]

Others(k, u, m) == \E v \in Users \ {u} : mode[k][v] = m

(* oz_knl_cache_find and oz_knl_cache_conv, once they have waited *)
Lock(k, u, m) ==
  /\ ~Others(k, u, "EX")
  /\ m = "EX" => ~Others(k, u, "PR") /\ mode[k][u] = "NL"
  /\ m = "PR" => mode[k][u] \in {"NL", "EX"}
  /\ mode' = [mode EXCEPT ![k][u] = m]

(* oz_knl_cache_done, or oz_knl_cache_conv to NL *)
Unlock(k, u) == mode' = [mode EXCEPT ![k][u] = "NL"]

Next == \E k \in Keys, u \in Users :
          Unlock(k, u) \/ \E m \in {"PR", "EX"} : Lock(k, u, m)

Spec == Init /\ [][Next]_mode
=============================================================================
