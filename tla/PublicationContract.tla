------------------------- MODULE PublicationContract -------------------------
(***************************************************************************)
(* What the public mirror that is served promises to its readers, without  *)
(* its staging directory, its backup, the order of the renames, failures   *)
(* and crashes: a bundle is shown whole, of a suite on record that stood   *)
(* its checks; it may be away for a while; and what was shown is followed  *)
(* by the same suite or a newer one, never by an older one.                *)
(***************************************************************************)
EXTENDS Naturals, Sequences

CONSTANTS Evidence, Sound, Parts, None

VARIABLES
  record, \* the suites on record, oldest first
  shelf,  \* what is shown
  newest  \* the place on record behind which it does not go back

contractVars == <<record, shelf, newest>>

Nothing == [of |-> None, parts |-> {}]

Init == record = <<>> /\ shelf = Nothing /\ newest = 0

Add(e) == record' = Append(record, e) /\ UNCHANGED <<shelf, newest>>

Show(n) ==
  /\ shelf = Nothing
  /\ n >= newest /\ record[n] \in Sound
  /\ shelf' = [of |-> record[n], parts |-> Parts]
  /\ newest' = n
  /\ UNCHANGED record

Withdraw ==
  /\ shelf # Nothing /\ shelf' = Nothing
  /\ UNCHANGED <<record, newest>>

\* What was shown last is given up for something newer, before that is shown.
PassOver ==
  /\ shelf = Nothing
  /\ newest' \in newest .. Len(record)
  /\ UNCHANGED <<record, shelf>>

Next ==
  \/ \E e \in Evidence : Add(e)
  \/ \E n \in DOMAIN record : Show(n)
  \/ Withdraw \/ PassOver

Spec == Init /\ [][Next]_contractVars
=============================================================================
