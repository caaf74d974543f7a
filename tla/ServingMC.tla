----------------------------- MODULE ServingMC -----------------------------
(***************************************************************************)
(* Small instances of Serving for TLC.  Each run takes one set of scans:   *)
(* one employee whose scans are repeated, two requests racing for one      *)
(* employee, a visitor credential with an allowance, and a shared visitor  *)
(* credential with details or an authorization.                            *)
(***************************************************************************)
EXTENDS ServingInvariant, TLC

CONSTANTS r1, r2, staff, admin, d1, d2, lunch, dinner, ann, qe, qf, qa, qs,
          vic, wes

Scan(r, q, m) == [request |-> r, token |-> q, staff |-> staff,
                  public |-> TRUE, scanner |-> "north", mealType |-> m,
                  quantity |-> 1, authorization |-> None, visitor |-> None,
                  reading |-> FALSE]

(* Calls differ only in name.                                              *)
CallSymmetry == Permutations(Calls)

(* Devices are named "north" and "south"; "west" is free for a rename.     *)
LabelOf == [d \in Devices |-> IF d = d1 THEN "north" ELSE "south"]

(* Credentials of Ann's, an allocated and a shared visitor credential.     *)
KindOf == [q \in Credentials |-> IF q \in {qe, qf} THEN "EMPLOYEE"
                                 ELSE IF q = qa THEN "ALLOCATED" ELSE "SHARED"]
OwnerOf == [q \in Credentials |-> IF q \in {qe, qf} THEN ann ELSE None]
ExpiryOf == [q \in Credentials |-> IF q = qf THEN 1 ELSE 9]
LimitOf == [q \in Credentials |-> 1]
AllowedOf == [q \in Credentials |-> MealTypes]
EligibleOf == [e \in Employees |-> {lunch}]

(* One request, repeated with the same input, with a renamed scanner, with *)
(* another meal type and with a token that cannot be parsed.               *)
RepeatScans == {Scan(r1, qe, lunch),
                [Scan(r1, qe, lunch) EXCEPT !.scanner = "west"],
                [Scan(r1, qe, dinner) EXCEPT !.public = FALSE],
                [Scan(r1, qe, lunch) EXCEPT !.token = MalformedToken]}

(* Two requests for Ann on two scanners and with two credentials.          *)
WindowScans == {Scan(r1, qe, lunch),
                [Scan(r2, qe, lunch) EXCEPT !.scanner = "south"],
                [Scan(r2, qf, lunch) EXCEPT !.scanner = "south"]}

(* Two requests for two meal types of an allowance of one meal each.       *)
AllowanceScans == {Scan(r, qa, m) : r \in {r1, r2}, m \in {lunch, dinner}}

(* A shared credential at a staff scanner: read, recorded without and with *)
(* one or the other visitor.                                               *)
SharedScan == [Scan(r1, qs, lunch) EXCEPT !.public = FALSE]
VisitorScans == {SharedScan,
                 [SharedScan EXCEPT !.reading = TRUE],
                 [SharedScan EXCEPT !.visitor = vic],
                 [SharedScan EXCEPT !.visitor = wes]}

(* The same recorded under the authorization of its own or of another      *)
(* request, or with a visitor instead of the authorization.                *)
AuthorizedScans == {[SharedScan EXCEPT !.authorization = r1],
                    [SharedScan EXCEPT !.authorization = r1, !.request = r2],
                    [SharedScan EXCEPT !.visitor = vic]}

EmployeeScans == RepeatScans \cup WindowScans
MasterScans == AllowanceScans \cup VisitorScans \cup AuthorizedScans

(* The calls of one behaviour are about the same thing, and so are the     *)
(* changes: TLC need not mix scans of different themes.  An authorization  *)
(* is prepared before anything else happens to it, then either something   *)
(* else changes or time passes, and only where a scan can tell.            *)
OneTheme ==
  \/ /\ \E theme \in {RepeatScans, WindowScans} :
          \A c \in Calls : scan[c] \in theme \cup {None}
     /\ \A r \in Requests : request[r].prepared.state = "NONE"
  \/ /\ \E theme \in {AllowanceScans, VisitorScans} :
          \A c \in Calls : scan[c] \in theme \cup {None}
     /\ \A r \in Requests : request[r].prepared.state = "NONE"
     /\ changes <= 1 /\ clock = 0
  \/ /\ \A c \in Calls : scan[c] \in AuthorizedScans \cup {None}
     /\ online = Devices /\ offered = MealTypes
     /\ request[r2].prepared.state = "NONE"
     /\ changes = 2 \/ clock > 0 => request[r1].prepared.state # "NONE"
     /\ changes < 2 \/ clock = 0
=============================================================================
