---------------------------- MODULE MCAdmission ----------------------------
(* A small instance of Admission.                                           *)
EXTENDS Admission

A(ifid, pools, local) == [ifid |-> ifid, pools |-> [q \in Pool |-> pools[q]], local |-> local]

Net == {1, 2}

\* One of the two connections has another spec.name than metadata.name.
SpecNames == <<1, 3>>

\* A child; one with less in its pools, with nothing in them, with a subnet less;
\* with a second child, whose interface id is its own or not, or that has one
\* address in two pools; that child alone; the child with another interface id.
SmallSpecs ==
  LET two(a, b) == [k \in Child |-> IF k = 1 THEN a ELSE b]
      first  == A(1, <<{1}, {2}>>, {Net})
      second == A(2, <<{1}, {}>>, {Net})
  IN  {two(a, NoChild) : a \in {first, A(1, <<{1}, {}>>, {Net}), A(1, <<{}, {}>>, {Net}),
                                A(1, <<{1}, {2}>>, {}), A(2, <<{1}, {2}>>, {Net})}}
      \cup {two(first, b) : b \in {second, A(1, <<{1}, {}>>, {}), A(2, <<{1}, {1}>>, {})}}
      \cup {two(NoChild, second)}
=============================================================================
