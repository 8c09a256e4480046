------------------------------- MODULE Parts -------------------------------
(***************************************************************************)
(* The behaviours of a composed module that are looked at.  A behaviour    *)
(* starts with one mix and keeps it: which part of the program moves, how  *)
(* it is set up, and which risky steps are allowed.                        *)
(***************************************************************************)
EXTENDS Naturals, Sequences

CONSTANT Mixes \* records with at least the fields `part` and `risks`

VARIABLE mix

MixInit == mix \in Mixes

Moves(part) == mix.part = part
Risk(name) == name \in mix.risks
Safe(names) == names \cap mix.risks = {}

(* A map with a key put in, and without a key. *)
Put(f, x, v) == [y \in DOMAIN f \cup {x} |-> IF y = x THEN v ELSE f[y]]
Without(f, x) == [y \in DOMAIN f \ {x} |-> f[y]]

(* The entries of a sequence at the positions in I, in their order.         *)
Those(s, I) ==
  LET upTo[n \in 0 .. Len(s)] ==
        IF n = 0 THEN << >>
        ELSE IF n \in I THEN Append(upTo[n - 1], s[n]) ELSE upTo[n - 1]
  IN upTo[Len(s)]
=============================================================================
