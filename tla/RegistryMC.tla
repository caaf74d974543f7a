----------------------------- MODULE RegistryMC -----------------------------
EXTENDS Registry, TLC

CONSTANTS a, b, e1, e2, e3, hall, lab, breakfast, lunch, r1, r2, d1, d2

(* e1 and e2 work in the hall and have breakfast; e3 is not registered and *)
(* the lab is not there yet.                                               *)
TwoEmployees ==
  [c \in Codes |-> IF c = e3 THEN None
     ELSE [active |-> TRUE, removed |-> FALSE, department |-> d1,
           grants |-> {breakfast}, photo |-> None, batch |-> None]]
OneDepartment ==
  [d \in Departments |-> IF d = d1 THEN [name |-> hall, active |-> TRUE] ELSE None]

Blank == [kind |-> "GRANT", admin |-> a, who |-> {}, department |-> None,
          name |-> None, types |-> None, active |-> FALSE, confirm |-> FALSE,
          request |-> None]
About(kind, admin, who) ==
  [Blank EXCEPT !.kind = kind, !.admin = admin, !.who = who]
OfDepartment(kind, admin, d) ==
  [Blank EXCEPT !.kind = kind, !.admin = admin, !.department = d]
OfVisitors(types, request) ==
  [OfDepartment("VISITORS", a, d1) EXCEPT !.types = types, !.request = request]

(* A file for the hall, one for the lab, which is made on its first use,   *)
(* and one whose second row is refused.                                    *)
AllFiles == {[codes |-> <<e3>>, name |-> hall, types |-> {lunch}],
             [codes |-> <<e3>>, name |-> lab, types |-> {lunch}],
             [codes |-> <<e3, e1>>, name |-> None, types |-> {breakfast}]}

(* What a and b may do, so that every pair that meets at a row can.        *)
AllOperations ==
  {[About("REGISTER", b, {e3}) EXCEPT !.department = d1],
   [About("GRANT", b, {e1}) EXCEPT !.types = {lunch}],
   [About("GRANT", b, {e2}) EXCEPT !.types = {breakfast, lunch}],
   [About("BULK", a, {e1, e2}) EXCEPT !.types = {breakfast, lunch}],
   About("ARCHIVE", b, {e1}), About("ARCHIVE", b, {e3}),
   About("SET_ACTIVE", a, {e1}),
   [About("MOVE", a, {e1}) EXCEPT !.department = d2],
   About("PHOTO", a, {e1}),
   [OfDepartment("DEPARTMENT_CREATE", b, None) EXCEPT !.name = lab],
   [OfDepartment("DEPARTMENT_RENAME", b, d1) EXCEPT !.name = lab],
   [OfDepartment("DEPARTMENT_ACTIVE", b, d1) EXCEPT !.confirm = TRUE],
   [OfDepartment("DEPARTMENT_ACTIVE", b, d2) EXCEPT !.confirm = FALSE],
   [About("TYPE_ACTIVE", b, {}) EXCEPT !.types = {lunch}],
   OfVisitors({lunch}, r1), OfVisitors({lunch}, r2), OfVisitors({breakfast}, r1)}

(* Imports, photos, bulk changes and visitors meet at no row but their      *)
(* administrator's: a behaviour has one of them, beside all other requests. *)
Visitors == visitors # {} \/ \E w \in Workers : op[w] # None /\ op[w].kind = "VISITORS"
Imports == \E x \in Admins : page[x].request # None \/ \E r \in Requests : imports[<<x, r>>] # None
Photos == object # {} \/ \E w \in Workers : op[w] # None /\ op[w].kind = "PHOTO"
Bulk == \E x \in Admins : preview[x] # None

OneTheme == Cardinality({t \in 1..4 : <<Visitors, Imports, Photos, Bulk>>[t]}) <= 1

(* Workers are alike, and so are the keys of photos.                       *)
WorkersAndKeys == Permutations(Workers) \cup Permutations(Keys)
=============================================================================
