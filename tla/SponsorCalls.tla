---------------------------- MODULE SponsorCalls ----------------------------
(***************************************************************************)
(* What a live trial asks of Token Factory and of Tavily before it starts  *)
(* a Sandbox: the model catalog, the research of official documentation,   *)
(* and the patches, one for each strategy of Order and one more for the    *)
(* single-shot baseline.  Every request goes through a client that retries *)
(* transient answers; around it are the fallback query of the research,    *)
(* the repair of a completion that misses its schema, the second model     *)
(* attempt of a patch, and the second try for a patch that repeats an      *)
(* earlier one.  What the loops report at the end is compared with what    *)
(* the services saw, which the ghost variable served counts.               *)
(***************************************************************************)
EXTENDS ModelRouter, Integers, SequencesExt

CONSTANTS
  Order,             \* the strategies, in the order they are tried
  Catalogs,          \* the catalogs that may be listed
  SmokeModel,        \* the ID of the model that the sponsor smoke used
  Sources,           \* the sources a completion may assemble to
  VerdictOn(_),      \* what the Python validator says of each of them
  Tokens,            \* the token counts that a completion may be billed
  MaxModelRetries,   \* maxRetries of the Token Factory client
  MaxSearchRetries,  \* maxRetries of the Tavily client
  MaxTransients      \* bounds the transient answers in a trial

ASSUME SponsorAssumption ==
  /\ {MaxModelRetries, MaxSearchRetries, MaxTransients} \subseteq Nat
  /\ Tokens \subseteq Nat
  /\ \A s \in Sources : VerdictOn(s) \in {"valid", "syntax"}

ASSUME OrderIsList == Order \in Seq(Range(Order))

(* The reply that lists the models is one JSON array.                      *)
ASSUME CatalogsAreFinite == \A c \in Catalogs : IsFiniteSet(c) /\ c \subseteq Entries

VARIABLES
  step,         \* where the trial is: the call it is making, or how it ended
  http,         \* the request under way and its attempt
  model,        \* the routed model
  queries,      \* the research queries made
  telemetry,    \* the Tavily telemetry, one record for each #emit
  research,     \* what the research returned
  call,         \* the structured completion under way
  patch,        \* generatePatch: what it has accumulated
  history,      \* the patches of earlier diversity attempts, accumulated
  generated,    \* the patches accepted so far
  transients,   \* the transient answers so far
  served        \* ghost: what the services saw

vars == <<step, http, model, queries, telemetry, research, call, patch, history,
          generated, transients, served>>

Idle == [at |-> "idle", attempt |-> 0]
NoTally == [ids |-> 0, retries |-> 0, tokens |-> 0]
NewCall == [schemaAttempt |-> 0, tally |-> NoTally]
NewPatch == [attempt |-> 1, tally |-> NoTally, source |-> None, flag |-> "refused"]
NothingServed == [requests |-> 0, ids |-> 0, tokens |-> 0, judged |-> <<None, "refused">>]

Init ==
  /\ step = "catalog" /\ http = Idle /\ model = None
  /\ queries = 1 /\ telemetry = <<>> /\ research = None
  /\ call = NewCall /\ patch = NewPatch /\ history = <<>> /\ generated = <<>>
  /\ transients = 0
  /\ served = [calls |-> 0, searches |-> 0, credits |-> 0, patch |-> NothingServed]

Tavily == step \in {"search", "extract"}
MaxRetries == IF Tavily THEN MaxSearchRetries ELSE MaxModelRetries

Emit(outcome, credits) ==
  telemetry' = IF Tavily
    THEN Append(telemetry, [outcome |-> outcome, retryCount |-> http.attempt,
                            credits |-> credits])
    ELSE telemetry

Failed == step' = "failed" /\ http' = Idle

-----------------------------------------------------------------------------
(* The clients: #post of the Tavily client and #requestJson of the Token   *)
(* Factory client.                                                         *)

Posting(attempt) ==
  /\ http' = [at |-> "sent", attempt |-> attempt]
  /\ served' = [served EXCEPT
       !.calls = @ + (IF Tavily /\ attempt = 0 THEN 1 ELSE 0),
       !.searches = @ + (IF Tavily THEN 1 ELSE 0),
       !.patch.requests = @ + (IF step = "patch" THEN 1 ELSE 0)]
  /\ UNCHANGED <<step, model, queries, telemetry, research, call, patch, history,
                 generated, transients>>

Send == step \in {"catalog", "search", "extract", "patch"} /\ http = Idle /\ Posting(0)
Retry == http.at = "waiting" /\ Posting(http.attempt + 1)

AnswerOK ==
  /\ http.at = "sent"
  /\ http' = [http EXCEPT !.at = "reading"]
  /\ UNCHANGED <<step, model, queries, telemetry, research, call, patch, history,
                 generated, transients, served>>

(* 429 or 5xx: tried again after a pause while retries are left.           *)
AnswerTransient ==
  /\ http.at = "sent" /\ transients < MaxTransients
  /\ transients' = transients + 1
  /\ Emit("transient-error", 0)
  /\ IF http.attempt < MaxRetries
       THEN http' = [http EXCEPT !.at = "waiting"] /\ UNCHANGED step
       ELSE Failed
  /\ UNCHANGED <<model, queries, research, call, patch, history, generated, served>>

(* Another status: not tried again.                                        *)
AnswerRefused ==
  /\ http.at = "sent"
  /\ Emit("error", 0) /\ Failed
  /\ UNCHANGED <<model, queries, research, call, patch, history, generated, transients,
                 served>>

(* A slip: no timer is armed.                                              *)
NeverTimesOut == FALSE /\ UNCHANGED vars

(* The timer of the attempt fires, or the connection fails.                *)
NoAnswer ==
  /\ http.at = "sent"
  /\ \E outcome \in {"aborted", "error"} : Emit(outcome, 0)
  /\ Failed
  /\ UNCHANGED <<model, queries, research, call, patch, history, generated, transients,
                 served>>

(* The body is read after the timer was cleared.  Too large, not JSON, or  *)
(* not what the caller's schema asks for, it ends the trial.               *)
BodyUnusable ==
  /\ http.at = "reading"
  /\ Failed
  /\ UNCHANGED <<model, queries, telemetry, research, call, patch, history, generated,
                 transients, served>>

-----------------------------------------------------------------------------
(* The catalog and the research.  A model other than the one that the      *)
(* sponsor smoke used ends the trial.                                      *)

ListModels ==
  /\ step = "catalog" /\ http.at = "reading"
  /\ \E catalog \in Catalogs :
       LET decision == IF Trustworthy(catalog) THEN SelectNvidiaDecision(catalog) ELSE None
       IN /\ model' = IF decision = None THEN None ELSE [entry |-> decision, catalog |-> catalog]
          /\ IF decision # None /\ decision.id = SmokeModel
               THEN step' = "search" /\ http' = Idle
               ELSE Failed
  /\ UNCHANGED <<queries, telemetry, research, call, patch, history, generated, transients,
                 served>>

TotalCredits(entries) == FoldLeft(LAMBDA sum, e : sum + e.credits, 0, entries)

(* After a query: the fallback query once, if the research has nothing to  *)
(* show, and then the credits of every telemetry record.                   *)
AfterQuery(found) ==
  IF found
    THEN step' = "patch" /\ research' = TotalCredits(telemetry') /\ UNCHANGED queries
    ELSE /\ queries' = queries + 1
         /\ step' = IF queries = 1 THEN "search" ELSE "failed"
         /\ UNCHANGED research

Charged == served' = [served EXCEPT !.credits = @ + 1]

(* Without a result from an official host the research ends there.         *)
SearchDone ==
  /\ step = "search" /\ http.at = "reading"
  /\ Emit("success", 1) /\ Charged /\ http' = Idle
  /\ \E official \in BOOLEAN :
       IF official THEN step' = "extract" /\ UNCHANGED <<queries, research>> ELSE AfterQuery(FALSE)
  /\ UNCHANGED <<model, call, patch, history, generated, transients>>

(* The extracted pages are among those that were selected (another one     *)
(* makes the body unusable); none may have come back.                      *)
ExtractDone ==
  /\ step = "extract" /\ http.at = "reading"
  /\ Emit("success", 1) /\ Charged /\ http' = Idle
  /\ \E found \in BOOLEAN : AfterQuery(found)
  /\ UNCHANGED <<model, call, patch, history, generated, transients>>

-----------------------------------------------------------------------------
(* A structured completion.                                                *)

Counted(tokens) ==
  [call.tally EXCEPT !.ids = @ + 1, !.retries = @ + http.attempt, !.tokens = @ + tokens]

Billed(tokens) ==
  served' = [served EXCEPT !.patch.ids = @ + 1, !.patch.tokens = @ + tokens]

(* The content fits the schema: the call returns, and an answer to the     *)
(* repair request counts as one retry more.                                *)
Completed ==
  /\ step = "patch" /\ http.at = "reading"
  /\ \E tokens \in Tokens :
       /\ Billed(tokens)
       /\ call' = [call EXCEPT !.tally = [Counted(tokens) EXCEPT !.retries =
                                            @ + call.schemaAttempt]]
  /\ step' = "assemble" /\ http' = Idle
  /\ UNCHANGED <<model, queries, telemetry, research, patch, history, generated, transients>>

(* It does not: one repair request, and no other.                          *)
SchemaMissed ==
  /\ step = "patch" /\ http.at = "reading"
  /\ \E tokens \in Tokens :
       /\ Billed(tokens)
       /\ call' = [schemaAttempt |-> 1, tally |-> Counted(tokens)]
  /\ http' = Idle
  /\ step' = IF call.schemaAttempt = 0 THEN "patch" ELSE "failed"
  /\ UNCHANGED <<model, queries, telemetry, research, patch, history, generated, transients>>

-----------------------------------------------------------------------------
(* generatePatch and the loop over the strategies.                         *)

Plus(a, b) ==
  [ids |-> a.ids + b.ids, retries |-> a.retries + b.retries, tokens |-> a.tokens + b.tokens]

SingleShot == Len(generated) = Len(Order)
MaxModelAttempts == IF SingleShot THEN 1 ELSE 2

(* A slip: what an earlier attempt was permitted is not reset.             *)
FlagNotReset(source, flag) ==
  [attempt |-> patch.attempt, source |-> source,
   flag |-> IF patch.flag = "syntax" /\ flag = "refused" THEN "syntax" ELSE flag,
   tally |-> [Plus(patch.tally, call.tally) EXCEPT !.retries =
                @ + (IF patch.attempt > 1 THEN 1 ELSE 0)]]

(* One model attempt: the tally grows by the completion's and by the       *)
(* attempt itself, and the source and the flags are those of this attempt. *)
Attempted(source, flag) ==
  [attempt |-> patch.attempt, source |-> source, flag |-> flag,
   tally |-> [Plus(patch.tally, call.tally) EXCEPT !.retries =
                @ + (IF patch.attempt > 1 THEN 1 ELSE 0)]]

(* A slip: a second diversity attempt is not itself a retry.               *)
JustAdded(p) ==
  IF history = <<>> THEN p ELSE [p EXCEPT !.tally = Plus(history[1].tally, p.tally)]

Accumulated(p) ==
  IF history = <<>>
    THEN p
    ELSE [p EXCEPT !.tally = [Plus(history[1].tally, p.tally) EXCEPT !.retries = @ + 1]]

Repeats(source) == \E k \in DOMAIN generated : generated[k].patch.source = source

Accept(p, seen) ==
  /\ generated' = Append(generated, [patch |-> p, served |-> seen])
  /\ served' = [served EXCEPT !.patch = NothingServed]
  /\ step' = IF SingleShot THEN "done" ELSE "patch"
  /\ history' = <<>>

(* A patch was generated: the single shot is taken as it is, a strategy's  *)
(* if its source is new, and otherwise one more patch is asked for.        *)
PatchReturned(p, seen) ==
  LET total == IF SingleShot THEN p ELSE Accumulated(p)
  IN /\ patch' = NewPatch
     /\ IF SingleShot \/ ~Repeats(p.source)
          THEN Accept(total, seen)
          ELSE /\ step' = IF history = <<>> THEN "patch" ELSE "failed"
               /\ history' = <<total>>
               /\ served' = [served EXCEPT !.patch = seen]
               /\ UNCHANGED generated

(* The replacement functions are put into the pinned source and validated. *)
(* A valid source ends the attempts; after the last one a source that only *)
(* fails to parse is kept, for the Sandbox build to fail.  A replacement   *)
(* that cannot be assembled, that changes nothing or that the validator    *)
(* rejects for another reason, or a validator that does not start, is      *)
(* refused.                                                                *)
Assemble ==
  /\ step = "assemble"
  /\ \E made \in {<<s, VerdictOn(s)>> : s \in Sources} \cup {<<None, "refused">>} :
       LET p == Attempted(made[1], made[2])
           seen == [served.patch EXCEPT !.judged = made]
           tryAgain == p.flag # "valid" /\ patch.attempt < MaxModelAttempts
       IN CASE ~tryAgain /\ p.flag # "refused" -> PatchReturned(p, seen)
            [] tryAgain ->
                 /\ patch' = [p EXCEPT !.attempt = @ + 1]
                 /\ step' = "patch" /\ served' = [served EXCEPT !.patch = seen]
                 /\ UNCHANGED <<history, generated>>
            [] OTHER -> step' = "failed" /\ UNCHANGED <<patch, history, generated, served>>
  /\ call' = NewCall
  /\ UNCHANGED <<http, model, queries, telemetry, research, transients>>

(* The record of the attempt cannot be written, or the source is not       *)
(* sanitized.                                                              *)
RecordFails ==
  /\ step = "assemble"
  /\ Failed
  /\ UNCHANGED <<model, queries, telemetry, research, call, patch, history, generated,
                 transients, served>>

Next ==
  \/ Send \/ Retry
  \/ AnswerOK \/ AnswerTransient \/ AnswerRefused \/ NoAnswer \/ BodyUnusable
  \/ ListModels \/ SearchDone \/ ExtractDone
  \/ Completed \/ SchemaMissed
  \/ Assemble \/ RecordFails

Spec == Init /\ [][Next]_vars

(* The trial takes its own steps, the timer of an attempt fires, and a     *)
(* service that has started a body ends it: no timer covers the body.  A   *)
(* service need never answer.                                              *)
FairSpec ==
  /\ Spec
  /\ WF_vars(Send) /\ WF_vars(Retry) /\ WF_vars(NoAnswer)
  /\ WF_vars(BodyUnusable) /\ WF_vars(Assemble)

-----------------------------------------------------------------------------
(* What an accepted patch reports is what the service saw for its          *)
(* strategy, through all the loops around one completion: every completion *)
(* once, its tokens, and every request, of which all but the first are     *)
(* retries.                                                                *)
TalliesReported ==
  \A k \in DOMAIN generated :
    LET tally == generated[k].patch.tally
        seen == generated[k].served
    IN /\ tally.ids = seen.ids
       /\ tally.tokens = seen.tokens
       /\ tally.retries + 1 = seen.requests

(* The tallies are complete, and the credits of the research are those of  *)
(* every Tavily call that was charged, the ones of a query that brought    *)
(* nothing back too.                                                       *)
EverythingReported ==
  TalliesReported /\ (research # None => research = served.credits)

(* The source of an accepted patch is the one that the last attempt        *)
(* assembled and the validator passed or only could not parse; no two      *)
(* strategies of the tournament have the same.                             *)
SourcesChecked ==
  /\ \A k \in DOMAIN generated :
       LET judged == generated[k].served.judged
       IN judged[1] = generated[k].patch.source /\ judged[2] # "refused"
  /\ \A j, k \in DOMAIN generated \cap DOMAIN Order :
       generated[j].patch.source = generated[k].patch.source => j = k

(* A Lightning model drives a trial only where a Lightning model came      *)
(* first in the catalog: it never stands in, uncertified, for a Super      *)
(* model that is too expensive or has too small a context window.          *)
NoUncertifiedFallback ==
  (model # None /\ model.entry.family = "LIGHTNING") =>
    \E m \in model.catalog :
      /\ m.active /\ m.family = "LIGHTNING"
      /\ \A n \in model.catalog :
           (n.active /\ n.nvidia /\ n.family = "SUPER") => (m.structured /\ ~n.structured)

(* Every trial gets through its sponsor calls or fails.                    *)
CallsSettle == <>(step \in {"done", "failed"})

(* The retries that the suite reports for Tavily are the attempts beyond   *)
(* the first (docs/evaluations/methodology.md).                            *)
RetriesAreAttempts ==
  step = "done" =>
    FoldLeft(LAMBDA sum, e : sum + e.retryCount, 0, telemetry) = served.searches - served.calls

-----------------------------------------------------------------------------
(* Why tallies and sources are right: an inductive invariant.              *)

Verdicts == {"valid", "syntax", "refused"}
Tallies == [ids : Nat, retries : Nat, tokens : Nat]
Patches ==
  [attempt : Nat \ {0}, tally : Tallies, source : Sources \cup {None}, flag : Verdicts]
Seen == [requests : Nat, ids : Nat, tokens : Nat, judged : (Sources \cup {None}) \X Verdicts]

CallsTypeOK ==
  /\ http \in [at : {"idle", "sent", "waiting", "reading"}, attempt : Nat]
  /\ call \in [schemaAttempt : {0, 1}, tally : Tallies]
  /\ patch \in Patches
  /\ history = <<>> \/ (history = <<history[1]>> /\ history[1] \in Patches)
  /\ generated \in Seq([patch : Patches, served : Seen])
  /\ served \in [calls : Nat, searches : Nat, credits : Nat, patch : Seen]

Patching == step \in {"patch", "assemble"}

\* How far the trial is: nothing is patched before the research, and nothing sent after it.
CallsInStep ==
  /\ step \in {"catalog", "search", "extract"} =>
       /\ call = NewCall /\ patch = NewPatch /\ history = <<>>
       /\ served.patch = NothingServed
       /\ generated = <<>>
  /\ step \notin {"catalog", "search", "extract", "patch"} => http = Idle
  /\ Patching => Len(generated) <= Len(Order) /\ (SingleShot => history = <<>>)
  /\ step = "patch" /\ call.schemaAttempt = 0 => call.tally = NoTally
  /\ Patching /\ patch.attempt = 1 => patch.tally = NoTally

\* The tally of the earlier diversity attempt.
Earlier == IF history = <<>> THEN NoTally ELSE history[1].tally

\* The requests that were made: n + 1 of n retries, in the earlier diversity attempt, in the
\* earlier model attempt, in the call before its repair, and of the request under way.
EarlierRequests == IF history = <<>> THEN 0 ELSE history[1].tally.retries + 1
AttemptRequests == IF patch.attempt = 1 THEN 0 ELSE patch.tally.retries + 1
CallRequests == IF call.schemaAttempt = 0 THEN 0 ELSE call.tally.retries + 1
RequestsUnderWay == IF http.at = "idle" THEN 0 ELSE http.attempt + 1

\* The tallies so far are what was served so far.
CountsAgree ==
  /\ Patching =>
       /\ served.patch.ids = Earlier.ids + patch.tally.ids + call.tally.ids
       /\ served.patch.tokens = Earlier.tokens + patch.tally.tokens + call.tally.tokens
  /\ step = "patch" =>
       served.patch.requests =
         EarlierRequests + AttemptRequests + CallRequests + RequestsUnderWay
  /\ step = "assemble" =>
       served.patch.requests = EarlierRequests + AttemptRequests + (call.tally.retries + 1)

CallsInv ==
  CallsTypeOK /\ CallsInStep /\ CountsAgree /\ TalliesReported /\ SourcesChecked

(* Why the credits are right: the fold over the telemetry is what was      *)
(* charged, and no query is made once the research has returned.           *)
Telemetry ==
  [outcome : {"success", "transient-error", "aborted", "error"}, retryCount : Nat,
   credits : Nat]

ResearchInv ==
  /\ telemetry \in Seq(Telemetry)
  /\ TotalCredits(telemetry) = served.credits
  /\ research # None =>
       research = served.credits /\ step \notin {"catalog", "search", "extract"}

(* Why the model is right: it is what the router makes of a catalog that   *)
(* passed the check.                                                       *)
RoutedInv ==
  model # None =>
    /\ model.catalog \in Catalogs /\ Trustworthy(model.catalog)
    /\ model.entry # None /\ model.entry = SelectNvidiaDecision(model.catalog)
=============================================================================
