----------------------------- MODULE MCEvidence -----------------------------
(***************************************************************************)
(* Model-checking instance of Evidence.  The rows: a bare text, two rows   *)
(* of one host at different times, one of another host with its fields     *)
(* beside the payload's name, a payload that is a list, and a row without  *)
(* a host.                                                                 *)
(***************************************************************************)
EXTENDS Evidence

FieldNames == {"password", "Password", "host", "stamp", "title", "kind", "uri", "payload", "value",
               "rule", "detection_name", "result_id", "evidence", "note"}

LowerCase == [n \in FieldNames |-> IF n = "Password" THEN "password" ELSE n]

DetectionRows == {
    Text("bare"),
    Dict([payload |-> Dict([host |-> Text("h1"), stamp |-> Text("t1"), Password |-> Text("p1")]),
          host |-> Text("h1")]),
    Dict([payload |-> Dict([host |-> Text("h1"), stamp |-> Text("t2")]), host |-> Text("h1"),
          password |-> Text("p2")]),
    Dict([host |-> Text("h2"), stamp |-> Text("t1"), rule |-> Text("r1")]),
    Dict([payload |-> List(<<Dict([password |-> List(<<Text("p1")>>)])>>)]),
    Dict([host |-> Nothing, title |-> Text("quiet")])}
=============================================================================
