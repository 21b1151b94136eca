--------------------------- MODULE MCSponsorCalls ---------------------------
(***************************************************************************)
(* The sponsor calls of a trial with two strategies, three sources of      *)
(* which one does not parse, and catalogs in which the first choice is     *)
(* too expensive, too small, of unknown price, malformed or repeated.      *)
(***************************************************************************)
EXTENDS SponsorCalls

MCOrder == <<"minimal-compatibility", "prompt-schema-adaptation">>

MCVerdictOn(s) == IF s = "unparsable" THEN "syntax" ELSE "valid"

Entry(id, family, structured, context, cost) ==
  [id |-> id, family |-> family, nvidia |-> TRUE, structured |-> structured,
   context |-> context, cost |-> cost, active |-> TRUE, wellFormed |-> TRUE]

super == Entry(1, "SUPER", TRUE, 2, 1)
dearSuper == Entry(1, "SUPER", TRUE, 2, 3)
smallSuper == Entry(1, "SUPER", TRUE, 1, 1)
lightning == Entry(2, "LIGHTNING", FALSE, 2, 1)
structuredLightning == Entry(5, "LIGHTNING", TRUE, 2, 1)
plainSuper == Entry(3, "SUPER", FALSE, 2, 1)
ultra == Entry(4, "ULTRA", TRUE, 2, None)

MCCatalogs ==
  {{super, lightning}, {dearSuper, lightning}, {smallSuper, lightning}, {lightning},
   {structuredLightning, plainSuper}, {plainSuper, ultra},
   {super, [lightning EXCEPT !.wellFormed = FALSE]}, {super, smallSuper},
   {[super EXCEPT !.active = FALSE], structuredLightning}, {}}
=============================================================================
