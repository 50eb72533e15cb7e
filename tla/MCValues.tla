------------------------------- MODULE MCValues -------------------------------
(* Constants for checking Values with TLC.                                 *)
EXTENDS Values, TLC

(* Locations around a grid point, up to almost half-way to its neighbours. *)
Offsets == (-1 .. 1) \X (-1 .. 1)

Square5 == (-2 .. 2) \X (-2 .. 2)

(* At most two valid points are what the search can confuse.               *)
UpToTwo == {{}} \cup {{p, q} : p \in Square5, q \in Square5}

(* Every branch of the tables: forms and types of precipitation, with and  *)
(* without the potential ones, and codes that are none.                    *)
Forms == {<<Absent, Absent>>, <<Absent, 3>>, <<Absent, 12>>}
         \cup {<<form, 1>> : form \in Missing .. 9}

Types == {<<Absent, Absent>>, <<Absent, 2>>, <<1, 2>>, <<2, 1>>, <<Missing, 2>>, <<9, 2>>}

Weathers ==
  {[cloud |-> n, thunder |-> h, rain |-> r, fog |-> g,
    potForm |-> f[1], form |-> f[2], potType |-> t[1], type |-> t[2]] :
     n \in {Absent, 1, 2, 3, 5, 6, 7, 8}, h \in {Missing, 0, 1, 2}, r \in {Missing, 0, 2, 3, 4, 6},
     g \in {Missing, 0, 1, 2, 18}, f \in Forms, t \in Types}
===============================================================================
