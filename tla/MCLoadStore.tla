---------------------------- MODULE MCLoadStore ----------------------------
(* Words of two one-bit bytes: two pages of two bytes are the address space. *)
EXTENDS LoadStore
D(form, r, a, x, len) ==
  [form |-> form, r |-> r, a |-> a, x |-> x, indexed |-> FALSE, len |-> len,
   update |-> FALSE, order |-> "zero"]
X(form, r, a, b, len) == [D(form, r, a, b, len) EXCEPT !.indexed = TRUE]
U(i) == [i EXCEPT !.update = TRUE]
Integer ==
  { D("load", 1, 2, 1, 2), U(X("load", 1, 1, 2, 2)), U(D("load", 2, 1, 3, 1)),
    [U(X("load", 2, 0, 1, 1)) EXCEPT !.order = "sign"],
    [X("load", 1, 2, 2, 2) EXCEPT !.order = "brev"],
    D("store", 2, 1, 0, 2), U(D("store", 1, 1, 1, 2)), U(X("store", 2, 1, 1, 1)),
    [X("store", 1, 0, 2, 2) EXCEPT !.order = "brev"],
    D("lmw", 1, 0, 0, 0), D("lmw", 1, 0, 2, 0), D("lmw", 2, 1, 1, 0), D("lmw", 1, 2, 0, 0),
    D("stmw", 1, 0, 2, 0), D("stmw", 1, 2, 0, 0),
    D("lswi", 1, 0, 0, 3), D("lswi", 0, 2, 0, 0), D("lswi", 2, 1, 0, 2), D("lswi", 1, 2, 0, 3),
    D("stswi", 2, 1, 0, 3), D("stswi", 1, 0, 0, 0), D("stswi", 0, 2, 0, 2) }
\* In the other byte order the multiple and string forms are refused.
Swapped ==
  { D("lmw", 1, 0, 2, 0), D("stmw", 1, 0, 2, 0), D("lswi", 1, 0, 0, 3), D("stswi", 2, 1, 0, 3),
    U(D("load", 2, 1, 3, 1)) }
\* The store of a general register gives floating-point registers their contents.
Scalars ==
  { D("lf", 0, 0, 1, 2), U(D("lf", 0, 1, 2, 4)), D("stf", 0, 1, 1, 4), U(D("stf", 0, 0, 0, 2)),
    D("store", 1, 0, 1, 2) }
Pairs ==
  { D("lf", 0, 0, 1, 2), X("stfiwx", 0, 0, 1, 2),
    D("psq_l", 0, 1, 3, 2), U(D("psq_st", 0, 1, 0, 4)), D("psq_l", 0, 1, 0, 4) }
Program(code, ms) == [code |-> code, scratch |-> {1}, modes |-> ms]
MCPrograms ==
  { Program(Integer, {{}}), Program(Swapped, {{}, {"LE"}}), Program(Scalars, {{}, {"FP"}}),
    Program(Pairs, {{"FP"}, {"FP", "PSE", "LSQE"}}) }
\* Any conversion will do: a single is the first word of its double.
First(w) == [lane \in 0 .. 1 |-> IF lane = 0 THEN w ELSE AsWord[0]]
MCToDouble == [w \in Word |-> First(w)]
MCToSingle == [p \in Words |-> p[0]]
=============================================================================
