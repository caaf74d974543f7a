--------------------------- MODULE StaffAccessMC ---------------------------
(***************************************************************************)
(* Small instances of StaffAccess for TLC.                                 *)
(***************************************************************************)
EXTENDS StaffAccess, TLC

CONSTANTS a1, a2, s1, s2, m1, m2, m3, p1, b1, b2

Blank == [kind |-> "LOGIN", session |-> None, who |-> None, address |-> None,
          active |-> TRUE, roles |-> {}, phone |-> None, browser |-> None]

(* The first account, a second administrator, and the two signing in.      *)
SetUp ==
  {[Blank EXCEPT !.kind = "BOOTSTRAP", !.address = m1],
   [Blank EXCEPT !.address = m1], [Blank EXCEPT !.address = m2]}

(* What an administrator with session s may ask for.                       *)
Asks(s) ==
  LET Ask == [Blank EXCEPT !.session = s] IN
  {[Ask EXCEPT !.kind = "CREATE", !.address = m2, !.roles = {"ADMIN"}],
   [Ask EXCEPT !.kind = "LOGOUT"], [Ask EXCEPT !.kind = "CREATE_CODE"]}
  \cup {[Ask EXCEPT !.kind = "REVOKE", !.phone = p] : p \in Phones}
  \cup {[Ask EXCEPT !.kind = "SET_ACTIVE", !.who = a, !.active = x] :
          a \in Staff, x \in BOOLEAN}
  \cup {[Ask EXCEPT !.kind = "SET_ROLES", !.who = a, !.roles = {"WAITER"}] :
          a \in Staff}
  \cup {[Ask EXCEPT !.kind = "UPDATE", !.who = a, !.address = m] :
          a \in Staff, m \in Addresses}

Entries == {[Blank EXCEPT !.kind = "ACTIVATE", !.phone = p, !.browser = b] :
              p \in Phones, b \in Browsers}

AllOperations == SetUp \cup Entries \cup UNION {Asks(s) : s \in Sessions}

Names == Permutations(Workers) \cup Permutations(Staff)
           \cup Permutations(Sessions) \cup Permutations(Browsers)

Busy == {w \in Workers : op[w] # None}
Quiet == started <= 4 => Cardinality(Busy) <= 1
=============================================================================
