---------------------------- MODULE MCAdmission ----------------------------
(* Admission with two readers and two writers: the writers exceed their    *)
(* class, all together exceed the global limit, and one queue slot fewer   *)
(* than callers makes the queue overflow.                                  *)
EXTENDS Admission

CONSTANTS r1, r2, w1, w2

MCOperation == {r1, r2, w1, w2}
MCClass == {"Reader", "Writer"}
MCClassOf == [p \in MCOperation |-> IF p \in {r1, r2} THEN "Reader" ELSE "Writer"]
MCClassLimit == [c \in MCClass |-> IF c = "Reader" THEN 2 ELSE 1]
============================================================================
