-------------------------- MODULE SponsorCallsProofs --------------------------
(***************************************************************************)
(* Proofs about SponsorCalls, for any strategies, sources, token counts    *)
(* and numbers of retries: the tally and the source of every patch, the    *)
(* credits of the research and the model that the router chooses.          *)
(***************************************************************************)
EXTENDS SponsorCalls, DataInduction

LEMMA OrderLength == Len(Order) \in Nat /\ DOMAIN Order = 1 .. Len(Order)
  BY OrderIsList

LEMMA NothingYet ==
  /\ NoTally \in Tallies /\ NewCall.tally = NoTally /\ NewCall.schemaAttempt = 0
  /\ NewCall \in [schemaAttempt : {0, 1}, tally : Tallies]
  /\ NewPatch \in Patches /\ NewPatch.tally = NoTally /\ NewPatch.attempt = 1
  /\ NothingServed \in Seen
  /\ NothingServed.ids = 0 /\ NothingServed.tokens = 0 /\ NothingServed.requests = 0
  /\ NoTally.ids = 0 /\ NoTally.tokens = 0 /\ NoTally.retries = 0
  BY DEF NoTally, NewCall, NewPatch, NothingServed, Tallies, Patches, Seen, Verdicts

LEMMA TallyNumbers ==
  ASSUME NEW t \in Tallies
  PROVE  t.ids \in Nat /\ t.retries \in Nat /\ t.tokens \in Nat
  BY DEF Tallies

\* The tallies of a sum.
LEMMA SumCounted ==
  ASSUME NEW a \in Tallies, NEW b \in Tallies
  PROVE  /\ Plus(a, b) \in Tallies
         /\ Plus(a, b).ids = a.ids + b.ids
         /\ Plus(a, b).retries = a.retries + b.retries
         /\ Plus(a, b).tokens = a.tokens + b.tokens
<1>1. /\ a.ids + b.ids \in Nat /\ a.retries + b.retries \in Nat /\ a.tokens + b.tokens \in Nat
  BY TallyNumbers
<1>2. QED
  BY <1>1 DEF Plus, Tallies

LEMMA RetriesAdded ==
  ASSUME NEW t \in Tallies, NEW n \in Nat
  PROVE  LET u == [t EXCEPT !.retries = @ + n] IN
         u \in Tallies /\ u.ids = t.ids /\ u.tokens = t.tokens /\ u.retries = t.retries + n
<1>1. t.retries + n \in Nat
  BY TallyNumbers
<1>2. QED
  BY <1>1 DEF Tallies

LEMMA RequestServed ==
  ASSUME NEW p \in Seen, NEW n \in Nat
  PROVE  LET q == [p EXCEPT !.requests = @ + n] IN
         /\ q \in Seen /\ q.requests = p.requests + n /\ q.ids = p.ids /\ q.tokens = p.tokens
         /\ n = 0 => q = p
<1>1. p.requests \in Nat
  BY DEF Seen
<1>2. p.requests + n \in Nat /\ (n = 0 => p.requests + n = p.requests)
  BY <1>1
<1>3. QED
  BY <1>2 DEF Seen

LEMMA AnswerBilled ==
  ASSUME NEW p \in Seen, NEW t \in Nat
  PROVE  LET q == [p EXCEPT !.ids = @ + 1, !.tokens = @ + t] IN
         q \in Seen /\ q.requests = p.requests /\ q.ids = p.ids + 1 /\ q.tokens = p.tokens + t
<1>1. p.ids \in Nat /\ p.tokens \in Nat
  BY DEF Seen
<1>2. p.ids + 1 \in Nat /\ p.tokens + t \in Nat
  BY <1>1
<1>3. QED
  BY <1>2 DEF Seen

\* What is counted, as tallies ...
LEMMA Kinds ==
  ASSUME CallsInv
  PROVE  /\ http.attempt \in Nat /\ call.schemaAttempt \in {0, 1}
         /\ patch.attempt \in Nat \ {0}
         /\ call.tally \in Tallies /\ patch.tally \in Tallies /\ Earlier \in Tallies
         /\ (history # <<>> => history[1].tally \in Tallies)
         /\ served.patch \in Seen
<1> USE DEF CallsInv, CallsTypeOK
<1>1. /\ http.attempt \in Nat /\ call.schemaAttempt \in {0, 1} /\ call.tally \in Tallies
      /\ served.patch \in Seen
  OBVIOUS
<1>2. patch.attempt \in Nat \ {0} /\ patch.tally \in Tallies
  BY DEF Patches
<1>3. history # <<>> => history[1].tally \in Tallies
  BY DEF Patches
<1>4. Earlier \in Tallies
  BY <1>3, NothingYet DEF Earlier
<1>5. QED
  BY <1>1, <1>2, <1>3, <1>4

\* ... and as numbers.
LEMMA Numbers ==
  ASSUME CallsInv
  PROVE  /\ http.attempt \in Nat
         /\ call.tally.ids \in Nat /\ call.tally.retries \in Nat /\ call.tally.tokens \in Nat
         /\ patch.tally.ids \in Nat /\ patch.tally.retries \in Nat /\ patch.tally.tokens \in Nat
         /\ Earlier.ids \in Nat /\ Earlier.tokens \in Nat
         /\ EarlierRequests \in Nat /\ AttemptRequests \in Nat /\ CallRequests \in Nat
         /\ RequestsUnderWay \in Nat
         /\ served.patch.requests \in Nat
         /\ served.patch.ids \in Nat /\ served.patch.tokens \in Nat
<1>1. /\ call.tally.ids \in Nat /\ call.tally.retries \in Nat /\ call.tally.tokens \in Nat
      /\ patch.tally.ids \in Nat /\ patch.tally.retries \in Nat /\ patch.tally.tokens \in Nat
      /\ Earlier.ids \in Nat /\ Earlier.tokens \in Nat
  BY Kinds, TallyNumbers
<1>2. http.attempt \in Nat
  BY Kinds
<1>3. history # <<>> => history[1].tally.retries \in Nat
  BY Kinds, TallyNumbers
<1>4. EarlierRequests \in Nat
  BY <1>3 DEF EarlierRequests
<1>5. AttemptRequests \in Nat /\ CallRequests \in Nat
  BY <1>1 DEF AttemptRequests, CallRequests
<1>6. RequestsUnderWay \in Nat
  BY <1>2 DEF RequestsUnderWay
<1>7. /\ served.patch.requests \in Nat
      /\ served.patch.ids \in Nat /\ served.patch.tokens \in Nat
  BY Kinds DEF Seen
<1>8. QED
  BY <1>1, <1>2, <1>4, <1>5, <1>6, <1>7

\* What is served is written as a whole.
LEMMA ServedPatch ==
  ASSUME CallsInv, NEW calls \in Nat, NEW searches \in Nat, NEW p \in Seen
  PROVE  LET s == [served EXCEPT !.calls = calls, !.searches = searches, !.patch = p] IN
         s \in [calls : Nat, searches : Nat, credits : Nat, patch : Seen] /\ s.patch = p
  BY DEF CallsInv, CallsTypeOK

LEMMA CallsInit == Init => CallsInv
<1> SUFFICES ASSUME Init PROVE CallsInv
  OBVIOUS
<1>1. CallsTypeOK
  <2>1. http \in [at : {"idle", "sent", "waiting", "reading"}, attempt : Nat]
    BY DEF Init, Idle
  <2>2. served \in [calls : Nat, searches : Nat, credits : Nat, patch : Seen]
    BY NothingYet DEF Init
  <2>3. generated \in Seq([patch : Patches, served : Seen])
    BY DEF Init
  <2>4. QED
    BY <2>1, <2>2, <2>3, NothingYet DEF Init, CallsTypeOK
<1>2. CallsInStep /\ CountsAgree
  BY DEF Init, CallsInStep, CountsAgree, Patching
<1>3. TalliesReported /\ SourcesChecked
  BY DEF Init, TalliesReported, SourcesChecked
<1>4. QED
  BY <1>1, <1>2, <1>3 DEF CallsInv

\* What was accepted stays as it is.
LEMMA AcceptedStays ==
  ASSUME CallsInv, UNCHANGED generated
  PROVE  TalliesReported' /\ SourcesChecked'
  BY DEF CallsInv, TalliesReported, SourcesChecked

\* A trial that has failed.
LEMMA FailedKeeps ==
  ASSUME CallsInv, step' = "failed", http' = Idle, UNCHANGED generated,
         call' = call \/ call' \in [schemaAttempt : {0, 1}, tally : Tallies],
         patch' = patch \/ patch' \in Patches,
         history' = history \/ \E p \in Patches : history' = <<p>>,
         served' = served \/
           served' \in [calls : Nat, searches : Nat, credits : Nat, patch : Seen]
  PROVE  CallsInv'
<1>1. CallsTypeOK'
  <2>1. http' \in [at : {"idle", "sent", "waiting", "reading"}, attempt : Nat]
    BY DEF Idle
  <2>2. history' = <<>> \/ (history' = <<history'[1]>> /\ history'[1] \in Patches)
    BY DEF CallsInv, CallsTypeOK
  <2>3. QED
    BY <2>1, <2>2 DEF CallsInv, CallsTypeOK
<1>2. CallsInStep' /\ CountsAgree'
  BY DEF CallsInStep, CountsAgree, Patching
<1>3. QED
  BY <1>1, <1>2, AcceptedStays DEF CallsInv

-----------------------------------------------------------------------------
(* The clients *)

\* What the steps of the client may change.
LEMMA ClientKeeps ==
  ASSUME CallsInv, UNCHANGED <<step, call, patch, history, generated, served>>,
         step \in {"catalog", "search", "extract", "patch"},
         http.at # "idle", NEW at \in {"waiting", "reading"}, http' = [http EXCEPT !.at = at]
  PROVE  CallsInv'
<1>1. /\ http'.at = at /\ http'.attempt = http.attempt
      /\ http' \in [at : {"idle", "sent", "waiting", "reading"}, attempt : Nat]
  BY DEF CallsInv, CallsTypeOK
<1>2. CallsTypeOK'
  BY <1>1 DEF CallsInv, CallsTypeOK
<1>3. CallsInStep'
  BY DEF CallsInv, CallsInStep, Patching, SingleShot
<1>4. CountsAgree'
  BY <1>1 DEF CallsInv, CountsAgree, Patching, Earlier, EarlierRequests, AttemptRequests,
     CallRequests, RequestsUnderWay
<1>5. QED
  BY <1>2, <1>3, <1>4, AcceptedStays DEF CallsInv

\* A request is under way only where one is made.
LEMMA RequestsInStep ==
  ASSUME CallsInv, http.at # "idle"
  PROVE  step \in {"catalog", "search", "extract", "patch"}
  BY DEF CallsInv, CallsInStep, Idle

\* One request more was sent.
LEMMA PostingKeeps ==
  ASSUME CallsInv, NEW attempt \in Nat, Posting(attempt),
         step \in {"catalog", "search", "extract", "patch"},
         attempt = IF http.at = "idle" THEN 0 ELSE http.attempt + 1
  PROVE  CallsInv'
<1> USE DEF CallsInv
<1>1. /\ http' = [at |-> "sent", attempt |-> attempt]
      /\ UNCHANGED <<step, call, patch, history, generated>>
  BY DEF Posting
<1>2. served \in [calls : Nat, searches : Nat, credits : Nat, patch : Seen]
  BY DEF CallsTypeOK
<1> DEFINE sent == IF step = "patch" THEN 1 ELSE 0
           p == [served.patch EXCEPT !.requests = @ + sent]
<1>3. /\ p \in Seen /\ p.ids = served.patch.ids /\ p.tokens = served.patch.tokens
      /\ p.requests = served.patch.requests + sent
      /\ step # "patch" => p = served.patch
  <2>1. sent \in Nat /\ (step # "patch" => sent = 0) /\ served.patch \in Seen
    BY Kinds
  <2> HIDE DEF sent
  <2>2. QED
    BY <2>1, RequestServed
<1>4. /\ served' \in [calls : Nat, searches : Nat, credits : Nat, patch : Seen]
      /\ served'.patch = p
  <2>1. served.calls \in Nat /\ served.searches \in Nat
    BY <1>2
  <2>2. PICK calls \in Nat, searches \in Nat :
          served' = [served EXCEPT !.calls = calls, !.searches = searches, !.patch = p]
    <3> DEFINE calls == served.calls + (IF Tavily /\ attempt = 0 THEN 1 ELSE 0)
               searches == served.searches + (IF Tavily THEN 1 ELSE 0)
    <3>1. calls \in Nat /\ searches \in Nat
      BY <2>1
    <3>2. served' = [served EXCEPT !.calls = calls, !.searches = searches, !.patch = p]
      BY <1>2 DEF Posting
    <3> HIDE DEF calls, searches, p
    <3>3. QED
      BY <3>1, <3>2
  <2> HIDE DEF p
  <2>3. QED
    BY <1>3, <2>2, ServedPatch
<1> HIDE DEF p
<1>5. CallsTypeOK'
  BY <1>1, <1>4 DEF CallsTypeOK
<1>6. CallsInStep'
  BY <1>1, <1>3, <1>4 DEF CallsInStep, Patching, SingleShot
<1>7. CountsAgree'
  <2>1. CASE step # "patch"
    BY <1>1, <2>1 DEF CountsAgree, Patching
  <2>2. CASE step = "patch"
    <3>1. /\ EarlierRequests' = EarlierRequests /\ AttemptRequests' = AttemptRequests
          /\ CallRequests' = CallRequests /\ Earlier' = Earlier
          /\ RequestsUnderWay = attempt /\ RequestsUnderWay' = attempt + 1
      BY <1>1 DEF EarlierRequests, AttemptRequests, CallRequests, Earlier, RequestsUnderWay
    <3>2. served.patch.requests = EarlierRequests + AttemptRequests + CallRequests + attempt
      BY <2>2, <3>1 DEF CountsAgree
    <3>3. served'.patch.requests = served.patch.requests + 1
      BY <1>3, <1>4, <2>2
    <3>4. served'.patch.requests =
            EarlierRequests + AttemptRequests + CallRequests + (attempt + 1)
      BY <3>2, <3>3, Numbers
    <3>5. QED
      BY <1>1, <1>3, <1>4, <2>2, <3>1, <3>4 DEF CountsAgree, Patching
  <2>3. QED
    BY <2>1, <2>2
<1>8. QED
  BY <1>1, <1>5, <1>6, <1>7, AcceptedStays

LEMMA SendKeeps == CallsInv /\ Send => CallsInv'
  BY PostingKeeps DEF Send, Idle

LEMMA RetryKeeps == CallsInv /\ Retry => CallsInv'
<1> SUFFICES ASSUME CallsInv, Retry PROVE CallsInv'
  OBVIOUS
<1>1. http.at = "waiting" /\ Posting(http.attempt + 1) /\ http.attempt + 1 \in Nat
  BY DEF Retry, CallsInv, CallsTypeOK
<1>2. QED
  BY <1>1, RequestsInStep, PostingKeeps

LEMMA AnswerOKKeeps == CallsInv /\ AnswerOK => CallsInv'
  BY RequestsInStep, ClientKeeps DEF AnswerOK

LEMMA AnswerTransientKeeps == CallsInv /\ AnswerTransient => CallsInv'
<1> SUFFICES ASSUME CallsInv, AnswerTransient PROVE CallsInv'
  OBVIOUS
<1>1. http.at = "sent" /\ UNCHANGED <<call, patch, history, generated, served>>
  BY DEF AnswerTransient
<1>2. CASE step' = "failed" /\ http' = Idle
  BY <1>1, <1>2, FailedKeeps
<1>3. CASE step' = step /\ http' = [http EXCEPT !.at = "waiting"]
  BY <1>1, <1>3, RequestsInStep, ClientKeeps
<1>4. QED
  BY <1>2, <1>3 DEF AnswerTransient, Failed

LEMMA EndsKeep ==
  CallsInv /\ (AnswerRefused \/ NoAnswer \/ BodyUnusable \/ RecordFails) => CallsInv'
  BY FailedKeeps DEF AnswerRefused, NoAnswer, BodyUnusable, RecordFails, Failed

-----------------------------------------------------------------------------
(* The catalog and the research *)

\* A step on to the next request, before the first patch is asked for.
LEMMA ResearchKeeps ==
  ASSUME CallsInv, step \in {"catalog", "search", "extract"}, http' = Idle,
         step' \in {"search", "extract", "patch", "failed"},
         UNCHANGED <<call, patch, history, generated>>,
         served' = served \/ served' = [served EXCEPT !.credits = @ + 1]
  PROVE  CallsInv'
<1> USE DEF CallsInv
<1>1. /\ served' \in [calls : Nat, searches : Nat, credits : Nat, patch : Seen]
      /\ served'.patch = served.patch
  BY DEF CallsTypeOK
<1>2. http' \in [at : {"idle", "sent", "waiting", "reading"}, attempt : Nat] /\ http'.at = "idle"
  BY DEF Idle
<1>3. /\ call = NewCall /\ patch = NewPatch /\ history = <<>>
      /\ served.patch = NothingServed /\ generated = <<>>
  BY DEF CallsInStep
<1>4. CallsTypeOK'
  BY <1>1, <1>2 DEF CallsTypeOK
<1>5. CallsInStep'
  BY <1>1, <1>3, NothingYet, OrderLength DEF CallsInStep, Patching, SingleShot
<1>6. CountsAgree'
  BY <1>1, <1>2, <1>3, NothingYet
     DEF CountsAgree, Patching, Earlier, EarlierRequests, AttemptRequests, CallRequests,
         RequestsUnderWay
<1>7. QED
  BY <1>4, <1>5, <1>6, AcceptedStays

LEMMA ListModelsKeeps == CallsInv /\ ListModels => CallsInv'
<1> SUFFICES ASSUME CallsInv, ListModels PROVE CallsInv'
  OBVIOUS
<1>1. step = "catalog" /\ http' = Idle /\ step' \in {"search", "failed"}
      /\ UNCHANGED <<call, patch, history, generated, served>>
  BY DEF ListModels, Failed
<1>2. QED
  BY <1>1, ResearchKeeps

LEMMA SearchDoneKeeps == CallsInv /\ SearchDone => CallsInv'
<1> SUFFICES ASSUME CallsInv, SearchDone PROVE CallsInv'
  OBVIOUS
<1>1. step = "search" /\ http' = Idle /\ step' \in {"search", "extract", "patch", "failed"}
      /\ UNCHANGED <<call, patch, history, generated>>
      /\ served' = [served EXCEPT !.credits = @ + 1]
  BY DEF SearchDone, AfterQuery, Charged
<1>2. QED
  BY <1>1, ResearchKeeps

LEMMA ExtractDoneKeeps == CallsInv /\ ExtractDone => CallsInv'
<1> SUFFICES ASSUME CallsInv, ExtractDone PROVE CallsInv'
  OBVIOUS
<1>1. step = "extract" /\ http' = Idle /\ step' \in {"search", "patch", "failed"}
      /\ UNCHANGED <<call, patch, history, generated>>
      /\ served' = [served EXCEPT !.credits = @ + 1]
  BY DEF ExtractDone, AfterQuery, Charged
<1>2. QED
  BY <1>1, ResearchKeeps

-----------------------------------------------------------------------------
(* A completion *)

\* An answer is counted where it is billed.
LEMMA AnswerCounted ==
  ASSUME CallsInv, NEW tokens \in Tokens, Billed(tokens)
  PROVE  /\ served' \in [calls : Nat, searches : Nat, credits : Nat, patch : Seen]
         /\ served'.patch.ids = served.patch.ids + 1
         /\ served'.patch.tokens = served.patch.tokens + tokens
         /\ served'.patch.requests = served.patch.requests
         /\ Counted(tokens) \in Tallies
         /\ Counted(tokens).ids = call.tally.ids + 1
         /\ Counted(tokens).tokens = call.tally.tokens + tokens
         /\ Counted(tokens).retries = call.tally.retries + http.attempt
<1>1. tokens \in Nat
  BY SponsorAssumption
<1> DEFINE p == [served.patch EXCEPT !.ids = @ + 1, !.tokens = @ + tokens]
<1>2. /\ p \in Seen /\ p.ids = served.patch.ids + 1 /\ p.tokens = served.patch.tokens + tokens
      /\ p.requests = served.patch.requests
  BY <1>1, Kinds, AnswerBilled
<1>3. served' = [served EXCEPT !.patch = p]
  BY DEF Billed, CallsInv, CallsTypeOK
<1> HIDE DEF p
<1>4. served' \in [calls : Nat, searches : Nat, credits : Nat, patch : Seen] /\ served'.patch = p
  BY <1>2, <1>3 DEF CallsInv, CallsTypeOK
<1>5. /\ Counted(tokens) \in Tallies
      /\ Counted(tokens).ids = call.tally.ids + 1
      /\ Counted(tokens).tokens = call.tally.tokens + tokens
      /\ Counted(tokens).retries = call.tally.retries + http.attempt
  <2>1. /\ call.tally.ids + 1 \in Nat /\ call.tally.retries + http.attempt \in Nat
        /\ call.tally.tokens + tokens \in Nat
    BY <1>1, Numbers
  <2>2. QED
    BY <2>1, Kinds DEF Counted, Tallies
<1>6. QED
  BY <1>2, <1>4, <1>5

LEMMA CompletedKeeps == CallsInv /\ Completed => CallsInv'
<1> SUFFICES ASSUME CallsInv, Completed PROVE CallsInv'
  OBVIOUS
<1> USE DEF CallsInv
<1>1. PICK tokens \in Tokens :
        /\ Billed(tokens)
        /\ call' = [call EXCEPT !.tally = [Counted(tokens) EXCEPT !.retries =
                                             @ + call.schemaAttempt]]
  BY DEF Completed
<1>2. /\ step = "patch" /\ http.at = "reading" /\ step' = "assemble" /\ http' = Idle
      /\ UNCHANGED <<patch, history, generated>>
  BY DEF Completed
<1>3. call \in [schemaAttempt : {0, 1}, tally : Tallies] /\ call.schemaAttempt \in {0, 1}
      /\ call.tally \in Tallies /\ http.attempt \in Nat
  BY DEF CallsTypeOK
<1>4. /\ call' \in [schemaAttempt : {0, 1}, tally : Tallies]
      /\ call'.tally.ids = call.tally.ids + 1
      /\ call'.tally.retries = call.tally.retries + http.attempt + call.schemaAttempt
      /\ call'.tally.tokens = Counted(tokens).tokens
  BY <1>1, <1>3, AnswerCounted DEF Tallies
<1>5. http' \in [at : {"idle", "sent", "waiting", "reading"}, attempt : Nat]
  BY <1>2 DEF Idle
<1>6. CallsTypeOK'
  BY <1>1, <1>2, <1>4, <1>5, AnswerCounted DEF CallsTypeOK
<1>7. CallsInStep'
  BY <1>2 DEF CallsInStep, Patching, SingleShot
<1>8. CountsAgree'
  <2>1. /\ EarlierRequests' = EarlierRequests /\ AttemptRequests' = AttemptRequests
        /\ Earlier' = Earlier /\ RequestsUnderWay = http.attempt + 1
    BY <1>2 DEF EarlierRequests, AttemptRequests, Earlier, RequestsUnderWay
  <2>2. CallRequests = call.tally.retries + call.schemaAttempt
    BY <1>2, <1>3, NothingYet, Numbers DEF CallsInStep, CallRequests
  <2>3. served.patch.requests =
          EarlierRequests + AttemptRequests + CallRequests + RequestsUnderWay
    BY <1>2 DEF CountsAgree
  <2>4. /\ served.patch.ids = Earlier.ids + patch.tally.ids + call.tally.ids
        /\ served.patch.tokens = Earlier.tokens + patch.tally.tokens + call.tally.tokens
    BY <1>2 DEF CountsAgree, Patching
  <2> HIDE DEF CallsInv
  <2>5. served'.patch.requests = EarlierRequests + AttemptRequests + (call'.tally.retries + 1)
    BY <1>1, <1>4, <2>1, <2>2, <2>3, AnswerCounted, Numbers
  <2>6. tokens \in Nat
    BY SponsorAssumption
  <2>7. /\ served'.patch.ids = Earlier.ids + patch.tally.ids + call'.tally.ids
        /\ served'.patch.tokens = Earlier.tokens + patch.tally.tokens + call'.tally.tokens
    BY <1>1, <1>4, <2>4, <2>6, AnswerCounted, Numbers
  <2>8. QED
    BY <1>2, <2>1, <2>5, <2>7 DEF CountsAgree, Patching
<1>9. QED
  BY <1>2, <1>6, <1>7, <1>8, AcceptedStays

LEMMA SchemaMissedKeeps == CallsInv /\ SchemaMissed => CallsInv'
<1> SUFFICES ASSUME CallsInv, SchemaMissed PROVE CallsInv'
  OBVIOUS
<1> USE DEF CallsInv
<1>1. PICK tokens \in Tokens :
        Billed(tokens) /\ call' = [schemaAttempt |-> 1, tally |-> Counted(tokens)]
  BY DEF SchemaMissed
<1>2. /\ step = "patch" /\ http.at = "reading" /\ http' = Idle
      /\ step' = IF call.schemaAttempt = 0 THEN "patch" ELSE "failed"
      /\ UNCHANGED <<patch, history, generated>>
  BY DEF SchemaMissed
<1>3. /\ call' \in [schemaAttempt : {0, 1}, tally : Tallies] /\ call'.tally = Counted(tokens)
      /\ call'.schemaAttempt = 1
  BY <1>1, AnswerCounted
<1>4. CASE call.schemaAttempt # 0
  BY <1>1, <1>2, <1>3, <1>4, AnswerCounted, FailedKeeps
<1>5. CASE call.schemaAttempt = 0
  <2>1. http' \in [at : {"idle", "sent", "waiting", "reading"}, attempt : Nat]
        /\ http'.at = "idle"
    BY <1>2 DEF Idle
  <2>2. CallsTypeOK'
    BY <1>1, <1>2, <1>3, <2>1, AnswerCounted DEF CallsTypeOK
  <2>3. CallsInStep'
    BY <1>2, <1>3, <1>5 DEF CallsInStep, Patching, SingleShot
  <2>4. CountsAgree'
    <3>1. /\ EarlierRequests' = EarlierRequests /\ AttemptRequests' = AttemptRequests
          /\ Earlier' = Earlier /\ RequestsUnderWay = http.attempt + 1 /\ RequestsUnderWay' = 0
          /\ CallRequests = 0 /\ CallRequests' = call'.tally.retries + 1
      BY <1>2, <1>3, <1>5, <2>1
         DEF EarlierRequests, AttemptRequests, CallRequests, Earlier, RequestsUnderWay
    <3>2. /\ call.tally.ids = 0 /\ call.tally.retries = 0 /\ call.tally.tokens = 0
          /\ tokens \in Nat
      BY <1>2, <1>5, NothingYet, SponsorAssumption DEF CallsInStep
    <3>3. /\ served.patch.requests =
               EarlierRequests + AttemptRequests + CallRequests + RequestsUnderWay
          /\ served.patch.ids = Earlier.ids + patch.tally.ids + call.tally.ids
          /\ served.patch.tokens = Earlier.tokens + patch.tally.tokens + call.tally.tokens
      BY <1>2 DEF CountsAgree, Patching
    <3> HIDE DEF CallsInv
    <3>4. call'.tally.retries = http.attempt
      BY <1>1, <1>3, <3>2, AnswerCounted, Numbers
    <3>5. served'.patch.requests =
            EarlierRequests + AttemptRequests + (call'.tally.retries + 1) + 0
      BY <1>1, <3>1, <3>3, <3>4, AnswerCounted, Numbers
    <3>6. /\ served'.patch.ids = Earlier.ids + patch.tally.ids + call'.tally.ids
          /\ served'.patch.tokens = Earlier.tokens + patch.tally.tokens + call'.tally.tokens
      BY <1>1, <1>3, <3>2, <3>3, AnswerCounted, Numbers
    <3>7. QED
      BY <1>2, <1>5, <3>1, <3>5, <3>6 DEF CountsAgree, Patching
  <2>5. QED
    BY <1>2, <2>2, <2>3, <2>4, AcceptedStays
<1>6. QED
  BY <1>4, <1>5

-----------------------------------------------------------------------------
(* A patch *)

\* An attempt at a patch is tallied where it is served.
LEMMA AttemptCounted ==
  ASSUME CallsInv, step = "assemble", NEW source \in Sources \cup {None}, NEW flag \in Verdicts
  PROVE  LET p == Attempted(source, flag) IN
         /\ p \in Patches /\ p.source = source /\ p.flag = flag /\ p.attempt = patch.attempt
         /\ served.patch.ids = Earlier.ids + p.tally.ids
         /\ served.patch.tokens = Earlier.tokens + p.tally.tokens
         /\ served.patch.requests =
              EarlierRequests + (p.tally.retries + 1)
<1> DEFINE p == Attempted(source, flag)
<1> DEFINE sum == Plus(patch.tally, call.tally)
           again == IF patch.attempt > 1 THEN 1 ELSE 0
<1>1. /\ sum \in Tallies /\ sum.ids = patch.tally.ids + call.tally.ids
      /\ sum.tokens = patch.tally.tokens + call.tally.tokens
      /\ sum.retries = patch.tally.retries + call.tally.retries
  BY Kinds, SumCounted
<1>2. p = [attempt |-> patch.attempt, source |-> source, flag |-> flag,
           tally |-> [sum EXCEPT !.retries = @ + again]]
  BY DEF Attempted
<1>3. again \in Nat /\ (patch.attempt = 1 => again = 0) /\ (patch.attempt # 1 => again = 1)
  BY Kinds
<1> HIDE DEF p, sum, again
<1>4. /\ p.source = source /\ p.flag = flag /\ p.attempt = patch.attempt
      /\ p.tally \in Tallies
      /\ p.tally.ids = patch.tally.ids + call.tally.ids
      /\ p.tally.tokens = patch.tally.tokens + call.tally.tokens
      /\ p.tally.retries = patch.tally.retries + call.tally.retries + again
  BY <1>1, <1>2, <1>3, RetriesAdded
<1>5. p \in Patches
  BY <1>2, <1>4, Kinds DEF Patches
<1>6. /\ served.patch.ids = Earlier.ids + patch.tally.ids + call.tally.ids
      /\ served.patch.tokens = Earlier.tokens + patch.tally.tokens + call.tally.tokens
      /\ served.patch.requests = EarlierRequests + AttemptRequests + (call.tally.retries + 1)
      /\ patch.attempt = 1 => patch.tally.retries = 0
  BY NothingYet DEF CallsInv, CallsInStep, CountsAgree, Patching
<1>7. AttemptRequests = patch.tally.retries + again
  BY <1>3, <1>6, Numbers DEF AttemptRequests
<1>8. served.patch.requests = EarlierRequests + (p.tally.retries + 1)
  <2>1. again \in Nat /\ p.tally.retries = patch.tally.retries + call.tally.retries + again
        /\ served.patch.requests = EarlierRequests + AttemptRequests + (call.tally.retries + 1)
    BY <1>3, <1>4, <1>6
  <2>2. QED
    BY <1>7, <2>1, Numbers
<1>9. served.patch.ids = Earlier.ids + p.tally.ids
  BY <1>4, <1>6, Numbers
<1>10. served.patch.tokens = Earlier.tokens + p.tally.tokens
  BY <1>4, <1>6, Numbers
<1>11. QED
  BY <1>4, <1>5, <1>8, <1>9, <1>10 DEF p

\* So is a second diversity attempt.
LEMMA AccumulatedCounted ==
  ASSUME CallsInv, NEW p \in Patches
  PROVE  LET total == Accumulated(p) IN
         /\ total \in Patches /\ total.source = p.source /\ total.flag = p.flag
         /\ total.tally.ids = Earlier.ids + p.tally.ids
         /\ total.tally.tokens = Earlier.tokens + p.tally.tokens
         /\ total.tally.retries + 1 =
              EarlierRequests + (p.tally.retries + 1)
<1>1. p.tally \in Tallies
  BY DEF Patches
<1>2. CASE history = <<>>
  BY <1>1, <1>2, NothingYet, TallyNumbers DEF Accumulated, Earlier, EarlierRequests
<1>3. CASE history # <<>>
  <2>1. history[1].tally \in Tallies /\ history[1].tally.retries \in Nat
        /\ p.tally.retries \in Nat
    BY <1>1, <1>3, Kinds, TallyNumbers
  <2> DEFINE sum == Plus(history[1].tally, p.tally)
             tally == [sum EXCEPT !.retries = @ + 1]
  <2>2. /\ sum \in Tallies
        /\ sum.ids = history[1].tally.ids + p.tally.ids
        /\ sum.tokens = history[1].tally.tokens + p.tally.tokens
        /\ sum.retries = history[1].tally.retries + p.tally.retries
    BY <1>1, <2>1, SumCounted
  <2> HIDE DEF sum
  <2>3. /\ tally \in Tallies /\ tally.ids = history[1].tally.ids + p.tally.ids
        /\ tally.tokens = history[1].tally.tokens + p.tally.tokens
        /\ tally.retries = history[1].tally.retries + p.tally.retries + 1
    BY <2>2, RetriesAdded
  <2>4. Accumulated(p) = [p EXCEPT !.tally = tally]
    BY <1>3 DEF Accumulated, sum
  <2> HIDE DEF tally
  <2>5. /\ Accumulated(p) \in Patches /\ Accumulated(p).tally = tally
        /\ Accumulated(p).source = p.source /\ Accumulated(p).flag = p.flag
    BY <2>3, <2>4 DEF Patches
  <2>6. tally.retries + 1 = (history[1].tally.retries + 1) + (p.tally.retries + 1)
    BY <2>1, <2>3
  <2>7. QED
    BY <1>3, <2>3, <2>5, <2>6 DEF Earlier, EarlierRequests
<1>4. QED
  BY <1>2, <1>3

\* One attempt more was made: the model is asked again, and what was permitted is not kept.
LEMMA AskedAgainKeeps ==
  ASSUME CallsInv, step = "assemble", step' = "patch", http' = http, call' = NewCall,
         UNCHANGED <<history, generated>>,
         NEW source \in Sources \cup {None}, NEW flag \in Verdicts,
         patch' = [Attempted(source, flag) EXCEPT !.attempt = @ + 1],
         served' = [served EXCEPT !.patch = [served.patch EXCEPT !.judged = <<source, flag>>]]
  PROVE  CallsInv'
<1> DEFINE p == Attempted(source, flag)
           seen == [served.patch EXCEPT !.judged = <<source, flag>>]
<1>1. http = Idle
  BY DEF CallsInv, CallsInStep
<1>2. /\ seen \in Seen /\ seen.requests = served.patch.requests /\ seen.ids = served.patch.ids
      /\ seen.tokens = served.patch.tokens
  BY Kinds DEF Seen
<1>3. served' = [served EXCEPT !.patch = seen]
  OBVIOUS
<1>4. patch' = [p EXCEPT !.attempt = @ + 1]
  OBVIOUS
<1>5. /\ p \in Patches /\ p.attempt = patch.attempt
      /\ served.patch.ids = Earlier.ids + p.tally.ids
      /\ served.patch.tokens = Earlier.tokens + p.tally.tokens
      /\ served.patch.requests = EarlierRequests + (p.tally.retries + 1)
  BY AttemptCounted
<1> HIDE DEF p, seen
<1>6. served' \in [calls : Nat, searches : Nat, credits : Nat, patch : Seen]
      /\ served'.patch = seen
  BY <1>2, <1>3 DEF CallsInv, CallsTypeOK
<1>7. p.tally \in Tallies /\ p.attempt \in Nat \ {0} /\ p.attempt + 1 \in Nat \ {0}
      /\ p.attempt + 1 # 1
  BY <1>5 DEF Patches
<1>8. patch' \in Patches /\ patch'.tally = p.tally /\ patch'.attempt # 1
  BY <1>4, <1>5, <1>7 DEF Patches
<1>9. CallsTypeOK'
  BY <1>6, <1>8, NothingYet DEF CallsInv, CallsTypeOK
<1>10. CallsInStep'
  BY <1>1, <1>8, NothingYet DEF CallsInv, CallsInStep, Patching, SingleShot
<1>11. CountsAgree'
  <2>1. /\ EarlierRequests' = EarlierRequests /\ Earlier' = Earlier
        /\ AttemptRequests' = p.tally.retries + 1 /\ CallRequests' = 0 /\ RequestsUnderWay' = 0
    BY <1>1, <1>8, NothingYet
       DEF EarlierRequests, Earlier, AttemptRequests, CallRequests, RequestsUnderWay, Idle
  <2>2. p.tally.retries \in Nat /\ p.tally.ids \in Nat /\ p.tally.tokens \in Nat
    BY <1>7, TallyNumbers
  <2>3. served'.patch.requests = EarlierRequests + (p.tally.retries + 1) + 0 + 0
    BY <1>2, <1>5, <1>6, <2>2, Numbers
  <2>4. /\ served'.patch.ids = Earlier.ids + p.tally.ids + 0
        /\ served'.patch.tokens = Earlier.tokens + p.tally.tokens + 0
    BY <1>2, <1>5, <1>6, <2>2, Numbers
  <2>5. call'.tally.ids = 0 /\ call'.tally.tokens = 0
    BY NothingYet
  <2>6. QED
    BY <1>8, <2>1, <2>3, <2>4, <2>5 DEF CountsAgree, Patching
<1>12. QED
  BY <1>9, <1>10, <1>11, AcceptedStays DEF CallsInv

\* A strategy has repeated a patch: it is tallied, and one more is asked for.
LEMMA RepeatedKeeps ==
  ASSUME CallsInv, step = "assemble", step' = "patch", http' = http, call' = NewCall,
         patch' = NewPatch, UNCHANGED generated, history = <<>>, ~ SingleShot,
         NEW source \in Sources \cup {None}, NEW flag \in Verdicts,
         history' = <<Accumulated(Attempted(source, flag))>>,
         served' = [served EXCEPT !.patch = [served.patch EXCEPT !.judged = <<source, flag>>]]
  PROVE  CallsInv'
<1> DEFINE p == Attempted(source, flag)
           total == Accumulated(p)
           seen == [served.patch EXCEPT !.judged = <<source, flag>>]
<1>1. http = Idle
  BY DEF CallsInv, CallsInStep
<1>2. /\ seen \in Seen /\ seen.requests = served.patch.requests /\ seen.ids = served.patch.ids
      /\ seen.tokens = served.patch.tokens
  BY Kinds DEF Seen
<1>3. served' = [served EXCEPT !.patch = seen] /\ history' = <<total>>
  OBVIOUS
<1>4. /\ p \in Patches
      /\ served.patch.ids = Earlier.ids + p.tally.ids
      /\ served.patch.tokens = Earlier.tokens + p.tally.tokens
      /\ served.patch.requests = EarlierRequests + (p.tally.retries + 1)
  BY AttemptCounted
<1>5. /\ total \in Patches
      /\ total.tally.ids = Earlier.ids + p.tally.ids
      /\ total.tally.tokens = Earlier.tokens + p.tally.tokens
      /\ total.tally.retries + 1 = EarlierRequests + (p.tally.retries + 1)
  BY <1>4, AccumulatedCounted
<1> HIDE DEF p, total, seen
<1>6. served' \in [calls : Nat, searches : Nat, credits : Nat, patch : Seen]
      /\ served'.patch = seen
  BY <1>2, <1>3 DEF CallsInv, CallsTypeOK
<1>7. history' # <<>> /\ history'[1] = total /\ history' = <<history'[1]>>
  BY <1>3
<1>8. CallsTypeOK'
  BY <1>5, <1>6, <1>7, NothingYet DEF CallsInv, CallsTypeOK
<1>9. CallsInStep'
  BY <1>1, NothingYet DEF CallsInv, CallsInStep, Patching, SingleShot
<1>10. CountsAgree'
  <2>1. /\ EarlierRequests' = total.tally.retries + 1 /\ Earlier' = total.tally
        /\ AttemptRequests' = 0 /\ CallRequests' = 0 /\ RequestsUnderWay' = 0
    BY <1>1, <1>7, NothingYet
       DEF EarlierRequests, Earlier, AttemptRequests, CallRequests, RequestsUnderWay, Idle
  <2>2. total.tally \in Tallies
    BY <1>5 DEF Patches
  <2>3. total.tally.retries \in Nat /\ total.tally.ids \in Nat /\ total.tally.tokens \in Nat
    BY <2>2, TallyNumbers
  <2>4. served'.patch.requests = (total.tally.retries + 1) + 0 + 0 + 0
    BY <1>2, <1>4, <1>5, <1>6, <2>3
  <2>5. /\ served'.patch.ids = total.tally.ids + 0 + 0
        /\ served'.patch.tokens = total.tally.tokens + 0 + 0
    BY <1>2, <1>4, <1>5, <1>6, <2>3
  <2>6. /\ call'.tally.ids = 0 /\ call'.tally.tokens = 0
        /\ patch'.tally.ids = 0 /\ patch'.tally.tokens = 0
    BY NothingYet
  <2>7. QED
    BY <2>1, <2>4, <2>5, <2>6 DEF CountsAgree, Patching
<1>11. QED
  BY <1>8, <1>9, <1>10, AcceptedStays DEF CallsInv

\* A patch is accepted: the single shot, or one whose source no strategy had before.
LEMMA AcceptKeeps ==
  ASSUME CallsInv, step = "assemble", http' = http, call' = NewCall, patch' = NewPatch,
         NEW source \in Sources \cup {None}, NEW flag \in Verdicts, flag # "refused",
         NEW total \in Patches, total.source = source,
         total.tally.ids = served.patch.ids, total.tally.tokens = served.patch.tokens,
         total.tally.retries + 1 = served.patch.requests,
         SingleShot \/ ~ Repeats(source),
         Accept(total, [served.patch EXCEPT !.judged = <<source, flag>>])
  PROVE  CallsInv'
<1> DEFINE seen == [served.patch EXCEPT !.judged = <<source, flag>>]
           accepted == [patch |-> total, served |-> seen]
<1>1. http = Idle /\ Len(generated) <= Len(Order)
  BY DEF CallsInv, CallsInStep, Patching
<1>2. /\ seen \in Seen /\ seen.requests = served.patch.requests /\ seen.ids = served.patch.ids
      /\ seen.tokens = served.patch.tokens /\ seen.judged = <<source, flag>>
  BY Kinds DEF Seen
<1>3. /\ generated' = Append(generated, accepted)
      /\ served' = [served EXCEPT !.patch = NothingServed]
      /\ step' = IF SingleShot THEN "done" ELSE "patch"
      /\ history' = <<>>
  BY DEF Accept
<1> HIDE DEF seen
<1>4. accepted \in [patch : Patches, served : Seen]
      /\ accepted.patch = total /\ accepted.served = seen
  BY <1>2
<1> HIDE DEF accepted
<1>5. generated \in Seq([patch : Patches, served : Seen])
  BY DEF CallsInv, CallsTypeOK
<1>6. /\ generated' \in Seq([patch : Patches, served : Seen])
      /\ Len(generated') = Len(generated) + 1 /\ Len(generated) \in Nat
      /\ DOMAIN generated' = 1 .. Len(generated) + 1 /\ DOMAIN generated = 1 .. Len(generated)
      /\ generated'[Len(generated) + 1] = accepted
      /\ \A k \in DOMAIN generated : generated'[k] = generated[k]
  BY <1>3, <1>4, <1>5
<1>7. served' \in [calls : Nat, searches : Nat, credits : Nat, patch : Seen]
      /\ served'.patch = NothingServed
  BY <1>3, NothingYet DEF CallsInv, CallsTypeOK
<1>8. CallsTypeOK'
  BY <1>3, <1>6, <1>7, NothingYet DEF CallsInv, CallsTypeOK
<1>9. CallsInStep'
  <2>1. Len(generated') = Len(generated) + 1 /\ Len(generated) \in Nat /\ Len(Order) \in Nat
    BY <1>6, OrderLength
  <2>2. step' = "patch" => Len(generated') <= Len(Order)
    BY <1>1, <1>3, <2>1 DEF SingleShot
  <2>3. step' \in {"patch", "done"} /\ history' = <<>> /\ http' = Idle
    BY <1>1, <1>3
  <2>4. QED
    BY <2>2, <2>3, NothingYet DEF CallsInStep, Patching
<1>10. CountsAgree'
  <2>1. CASE step' = "patch"
    <3>1. /\ EarlierRequests' = 0 /\ Earlier' = NoTally
          /\ AttemptRequests' = 0 /\ CallRequests' = 0 /\ RequestsUnderWay' = 0
      BY <1>1, <1>3, NothingYet
         DEF EarlierRequests, Earlier, AttemptRequests, CallRequests, RequestsUnderWay, Idle
    <3>2. QED
      BY <1>7, <2>1, <3>1, NothingYet DEF CountsAgree, Patching
  <2>2. CASE step' = "done"
    BY <2>2 DEF CountsAgree, Patching
  <2>3. QED
    BY <1>3, <2>1, <2>2
<1>11. \A k \in DOMAIN generated' : k \in DOMAIN generated \/ generated'[k] = accepted
  BY <1>6
<1>12. TalliesReported'
  <2>1. \A k \in DOMAIN generated :
          /\ generated[k].patch.tally.ids = generated[k].served.ids
          /\ generated[k].patch.tally.tokens = generated[k].served.tokens
          /\ generated[k].patch.tally.retries + 1 = generated[k].served.requests
    BY DEF CallsInv, TalliesReported
  <2>2. /\ accepted.patch.tally.ids = accepted.served.ids
        /\ accepted.patch.tally.tokens = accepted.served.tokens
        /\ accepted.patch.tally.retries + 1 = accepted.served.requests
    BY <1>2, <1>4
  <2>3. QED
    BY <1>6, <1>11, <2>1, <2>2 DEF TalliesReported
<1>13. SourcesChecked'
  <2>1. ASSUME NEW k \in DOMAIN generated'
        PROVE  /\ generated'[k].served.judged[1] = generated'[k].patch.source
               /\ generated'[k].served.judged[2] # "refused"
    <3>1. CASE k \in DOMAIN generated
      BY <1>6, <3>1 DEF CallsInv, SourcesChecked
    <3>2. CASE generated'[k] = accepted
      BY <1>2, <1>4, <3>2
    <3>3. QED
      BY <1>11, <3>1, <3>2
  <2>2. ASSUME NEW j \in DOMAIN generated' \cap DOMAIN Order, j \notin DOMAIN generated,
               NEW k \in DOMAIN generated
        PROVE  generated'[j].patch.source # generated'[k].patch.source
    <3>1. j = Len(generated) + 1 /\ j <= Len(Order) /\ Len(generated) \in Nat
          /\ Len(Order) \in Nat
      BY <1>6, <2>2, OrderLength
    <3>2. ~ SingleShot
      BY <3>1 DEF SingleShot
    <3>3. generated[k].patch.source # source
      BY <3>2 DEF Repeats
    <3>4. QED
      BY <1>4, <1>6, <3>1, <3>3
  <2>3. ASSUME NEW j \in DOMAIN generated' \cap DOMAIN Order,
               NEW k \in DOMAIN generated' \cap DOMAIN Order,
               generated'[j].patch.source = generated'[k].patch.source
        PROVE  j = k
    <3>1. CASE j \in DOMAIN generated /\ k \in DOMAIN generated
      BY <1>6, <2>3, <3>1 DEF CallsInv, SourcesChecked
    <3>2. CASE j \notin DOMAIN generated /\ k \notin DOMAIN generated
      BY <1>6, <3>2
    <3>3. CASE j \in DOMAIN generated /\ k \notin DOMAIN generated
      BY <2>2, <2>3, <3>3
    <3>4. CASE j \notin DOMAIN generated /\ k \in DOMAIN generated
      BY <2>2, <2>3, <3>4
    <3>5. QED
      BY <3>1, <3>2, <3>3, <3>4
  <2>4. QED
    BY <2>1, <2>3 DEF SourcesChecked
<1>14. QED
  BY <1>8, <1>9, <1>10, <1>12, <1>13 DEF CallsInv

LEMMA AssembleKeeps == CallsInv /\ Assemble => CallsInv'
<1> SUFFICES ASSUME CallsInv, Assemble PROVE CallsInv'
  OBVIOUS
<1>1. PICK made \in {<<s, VerdictOn(s)>> : s \in Sources} \cup {<<None, "refused">>} :
        LET p == Attempted(made[1], made[2])
            seen == [served.patch EXCEPT !.judged = made]
            tryAgain == p.flag # "valid" /\ patch.attempt < MaxModelAttempts
        IN CASE ~tryAgain /\ p.flag # "refused" -> PatchReturned(p, seen)
             [] tryAgain ->
                  /\ patch' = [p EXCEPT !.attempt = @ + 1]
                  /\ step' = "patch" /\ served' = [served EXCEPT !.patch = seen]
                  /\ UNCHANGED <<history, generated>>
             [] OTHER -> step' = "failed" /\ UNCHANGED <<patch, history, generated, served>>
  BY DEF Assemble
<1>2. PICK source \in Sources \cup {None}, flag \in Verdicts : made = <<source, flag>>
  BY SponsorAssumption DEF Verdicts
<1> DEFINE p == Attempted(source, flag)
           seen == [served.patch EXCEPT !.judged = <<source, flag>>]
           tryAgain == p.flag # "valid" /\ patch.attempt < MaxModelAttempts
<1>3. \/ ~tryAgain /\ p.flag # "refused" /\ PatchReturned(p, seen)
      \/ /\ patch' = [p EXCEPT !.attempt = @ + 1]
         /\ step' = "patch" /\ served' = [served EXCEPT !.patch = seen]
         /\ UNCHANGED <<history, generated>>
      \/ step' = "failed" /\ UNCHANGED <<patch, history, generated, served>>
  BY <1>1, <1>2
<1>4. step = "assemble" /\ call' = NewCall /\ http' = http
  BY DEF Assemble
<1>5. http = Idle
  BY <1>4 DEF CallsInv, CallsInStep
<1>6. /\ p \in Patches /\ p.source = source /\ p.flag = flag
      /\ served.patch.ids = Earlier.ids + p.tally.ids
      /\ served.patch.tokens = Earlier.tokens + p.tally.tokens
      /\ served.patch.requests = EarlierRequests + (p.tally.retries + 1)
  BY <1>4, AttemptCounted
<1>7. CASE step' = "failed" /\ UNCHANGED <<patch, history, generated, served>>
  BY <1>4, <1>5, <1>7, NothingYet, FailedKeeps
<1>8. CASE /\ patch' = [p EXCEPT !.attempt = @ + 1]
           /\ step' = "patch" /\ served' = [served EXCEPT !.patch = seen]
           /\ UNCHANGED <<history, generated>>
  BY <1>4, <1>8, AskedAgainKeeps
<1>9. CASE p.flag # "refused" /\ PatchReturned(p, seen)
  <2> DEFINE total == IF SingleShot THEN p ELSE Accumulated(p)
  <2>1. /\ Accumulated(p) \in Patches /\ Accumulated(p).source = p.source
        /\ Accumulated(p).tally.ids = Earlier.ids + p.tally.ids
        /\ Accumulated(p).tally.tokens = Earlier.tokens + p.tally.tokens
        /\ Accumulated(p).tally.retries + 1 = EarlierRequests + (p.tally.retries + 1)
    BY <1>6, AccumulatedCounted
  <2>2. SingleShot => history = <<>>
    BY <1>4 DEF CallsInv, CallsInStep, Patching
  <2>3. SingleShot => Accumulated(p) = p
    BY <2>2 DEF Accumulated
  <2>4. total = Accumulated(p)
    BY <2>3
  <2>5. /\ patch' = NewPatch
        /\ IF SingleShot \/ ~Repeats(p.source)
           THEN Accept(total, seen)
           ELSE /\ step' = IF history = <<>> THEN "patch" ELSE "failed"
                /\ history' = <<total>>
                /\ served' = [served EXCEPT !.patch = seen]
                /\ UNCHANGED generated
    BY <1>9 DEF PatchReturned
  <2>6. CASE SingleShot \/ ~Repeats(p.source)
    <3>1. Accept(Accumulated(p), seen) /\ patch' = NewPatch
      BY <2>4, <2>5, <2>6
    <3>2. /\ Accumulated(p).source = source /\ flag # "refused"
          /\ (SingleShot \/ ~Repeats(source))
          /\ Accumulated(p).tally.ids = served.patch.ids
          /\ Accumulated(p).tally.tokens = served.patch.tokens
          /\ Accumulated(p).tally.retries + 1 = served.patch.requests
      BY <1>6, <1>9, <2>1, <2>6
    <3> HIDE DEF p
    <3>3. QED
      BY <1>4, <2>1, <3>1, <3>2, AcceptKeeps
  <2>7. CASE ~ (SingleShot \/ ~Repeats(p.source)) /\ history = <<>>
    BY <1>4, <2>4, <2>5, <2>7, RepeatedKeeps
  <2>8. CASE ~ (SingleShot \/ ~Repeats(p.source)) /\ history # <<>>
    <3>1. step' = "failed" /\ history' = <<Accumulated(p)>> /\ UNCHANGED generated
          /\ served' = [served EXCEPT !.patch = seen]
      BY <2>4, <2>5, <2>8
    <3>2. seen \in Seen
      BY Kinds DEF Seen
    <3>3. served' \in [calls : Nat, searches : Nat, credits : Nat, patch : Seen]
      BY <3>1, <3>2 DEF CallsInv, CallsTypeOK
    <3>4. \E q \in Patches : history' = <<q>>
      BY <2>1, <3>1
    <3> HIDE DEF p, seen
    <3>5. QED
      BY <1>4, <1>5, <2>5, <3>1, <3>3, <3>4, NothingYet, FailedKeeps
  <2>9. QED
    BY <2>6, <2>7, <2>8
<1>10. QED
  BY <1>3, <1>7, <1>8, <1>9

LEMMA CallsStutter == CallsInv /\ UNCHANGED vars => CallsInv'
  BY DEF CallsInv, vars, CallsTypeOK, CallsInStep, CountsAgree, TalliesReported, SourcesChecked,
     Patching, SingleShot, Earlier, EarlierRequests, AttemptRequests, CallRequests,
     RequestsUnderWay

-----------------------------------------------------------------------------
(* The fold that adds up the credits.  Its recursive function exists for   *)
(* every number of entries (the least one for which it did not would       *)
(* follow one for which it does), and so does what it makes of a prefix.   *)

\* The recursive function of the fold, for the first n entries.
Folding(f, entries, n) ==
  f = [s \in SUBSET (1 .. n) |->
         IF s = {} THEN 0 ELSE f[s \ {Max(s)}] + entries[Max(s)].credits]

LEMMA TotalIsFold ==
  ASSUME NEW entries, NEW n \in Nat, DOMAIN entries = 1 .. n
  PROVE  TotalCredits(entries) = (CHOOSE f : Folding(f, entries, n))[1 .. n]
BY DEF TotalCredits, Folding, FoldLeft, MapThenFoldSet

LEMMA LastOfInterval ==
  ASSUME NEW n \in Nat, NEW s \in SUBSET (1 .. n + 1), n + 1 \in s
  PROVE  Max(s) = n + 1
<1>1. \A x \in s : n + 1 >= x /\ (x >= n + 1 => x = n + 1)
  OBVIOUS
<1>2. QED
  BY <1>1 DEF Max

LEMMA FoldingStart ==
  ASSUME NEW entries
  PROVE  \E f : Folding(f, entries, 0)
<1> DEFINE f == [s \in SUBSET (1 .. 0) |-> 0]
<1>1. SUBSET (1 .. 0) = {{}}
  OBVIOUS
<1>2. f = [s \in SUBSET (1 .. 0) |->
             IF s = {} THEN 0 ELSE f[s \ {Max(s)}] + entries[Max(s)].credits]
  BY <1>1
<1>3. QED
  BY <1>2 DEF Folding

LEMMA FoldingStep ==
  ASSUME NEW entries, NEW n \in Nat, NEW f, Folding(f, entries, n)
  PROVE  \E g : Folding(g, entries, n + 1)
<1> DEFINE g == [s \in SUBSET (1 .. n + 1) |->
                   IF n + 1 \in s THEN f[s \ {n + 1}] + entries[n + 1].credits ELSE f[s]]
           Folded(s) == IF s = {} THEN 0 ELSE g[s \ {Max(s)}] + entries[Max(s)].credits
<1>1. \A s \in SUBSET (1 .. n + 1) : s \ {n + 1} \in SUBSET (1 .. n)
  OBVIOUS
<1>2. ASSUME NEW s \in SUBSET (1 .. n + 1)
      PROVE  g[s] = Folded(s)
  <2>1. CASE n + 1 \in s
    <3>1. Max(s) = n + 1
      BY <2>1, LastOfInterval
    <3>2. s \ {n + 1} \in SUBSET (1 .. n + 1) /\ n + 1 \notin s \ {n + 1}
      OBVIOUS
    <3>3. g[s \ {n + 1}] = f[s \ {n + 1}]
      BY <3>2
    <3>4. QED
      BY <2>1, <3>1, <3>3
  <2>2. CASE n + 1 \notin s
    <3>1. s \in SUBSET (1 .. n)
      BY <1>1, <2>2
    <3>2. f[s] = IF s = {} THEN 0 ELSE f[s \ {Max(s)}] + entries[Max(s)].credits
      BY <3>1 DEF Folding
    <3>3. s \ {Max(s)} \in SUBSET (1 .. n + 1) /\ n + 1 \notin s \ {Max(s)}
      BY <2>2
    <3>4. g[s \ {Max(s)}] = f[s \ {Max(s)}] /\ g[s] = f[s]
      BY <2>2, <3>3
    <3>5. QED
      BY <3>2, <3>4
  <2>3. QED
    BY <2>1, <2>2
<1>3. g = [s \in SUBSET (1 .. n + 1) |-> Folded(s)]
  BY <1>2
<1>4. Folding(g, entries, n + 1)
  BY <1>3 DEF Folding
<1>5. QED
  BY <1>4

LEMMA FoldingExists ==
  ASSUME NEW entries, NEW n \in Nat
  PROVE  \E f : Folding(f, entries, n)
<1> DEFINE missing == {k \in Nat : ~ \E f : Folding(f, entries, k)}
<1>1. SUFFICES ASSUME missing # {}
               PROVE  FALSE
  OBVIOUS
<1>2. PICK k \in missing : \A j \in missing : k <= j
  BY <1>1, LeastNatural
<1>3. k # 0
  BY FoldingStart
<1>4. k - 1 \in Nat /\ k - 1 \notin missing
  BY <1>2, <1>3
<1>5. PICK f : Folding(f, entries, k - 1)
  BY <1>4
<1>6. \E g : Folding(g, entries, (k - 1) + 1)
  BY <1>4, <1>5, FoldingStep
<1>7. QED
  BY <1>6

\* What a fold makes of the first k entries.
LEMMA FoldingPrefix ==
  ASSUME NEW entries, NEW n \in Nat, NEW f, Folding(f, entries, n), NEW k \in Nat, k < n
  PROVE  f[1 .. k + 1] = f[1 .. k] + entries[k + 1].credits
<1>1. 1 .. k + 1 \in SUBSET (1 .. n) /\ 1 .. k + 1 # {} /\ (1 .. k + 1) \ {k + 1} = 1 .. k
  OBVIOUS
<1>2. Max(1 .. k + 1) = k + 1
  BY LastOfInterval
<1>3. QED
  BY <1>1, <1>2 DEF Folding

LEMMA FoldingEmpty ==
  ASSUME NEW entries, NEW n \in Nat, NEW f, Folding(f, entries, n)
  PROVE  f[1 .. 0] = 0
<1>1. 1 .. 0 = {} /\ {} \in SUBSET (1 .. n)
  OBVIOUS
<1>2. QED
  BY <1>1 DEF Folding

LEMMA FoldingSame ==
  ASSUME NEW a, NEW b, NEW m \in Nat, NEW n \in Nat, m <= n,
         \A k \in 1 .. m : a[k] = b[k],
         NEW f, Folding(f, a, m), NEW g, Folding(g, b, n)
  PROVE  f[1 .. m] = g[1 .. m]
<1> DEFINE different == {k \in 0 .. m : f[1 .. k] # g[1 .. k]}
<1>1. SUFFICES ASSUME different # {}
               PROVE  FALSE
  OBVIOUS
<1>2. PICK k \in different : \A j \in different : k <= j
  <2>1. different \in SUBSET Nat
    OBVIOUS
  <2>2. QED
    BY <1>1, <2>1, LeastNatural
<1>3. k # 0
  BY FoldingEmpty
<1>4. k - 1 \in 0 .. m /\ k - 1 \notin different
  BY <1>2, <1>3
<1>5. f[1 .. (k - 1) + 1] = f[1 .. k - 1] + a[(k - 1) + 1].credits
  BY <1>3, FoldingPrefix
<1>6. g[1 .. (k - 1) + 1] = g[1 .. k - 1] + b[(k - 1) + 1].credits
  BY <1>3, FoldingPrefix
<1>7. QED
  BY <1>3, <1>4, <1>5, <1>6

LEMMA TotalOfNone == TotalCredits(<<>>) = 0
<1>1. DOMAIN <<>> = 1 .. 0
  OBVIOUS
<1>2. PICK f : Folding(f, <<>>, 0)
  BY FoldingExists
<1>3. QED
  BY <1>1, <1>2, TotalIsFold, FoldingEmpty

LEMMA TotalOfAppend ==
  ASSUME NEW S, NEW entries \in Seq(S), NEW e
  PROVE  TotalCredits(Append(entries, e)) = TotalCredits(entries) + e.credits
<1> DEFINE n == Len(entries)
           longer == Append(entries, e)
<1>1. /\ n \in Nat /\ DOMAIN entries = 1 .. n /\ DOMAIN longer = 1 .. n + 1
      /\ longer[n + 1] = e /\ \A k \in 1 .. n : entries[k] = longer[k]
  OBVIOUS
<1> DEFINE f == CHOOSE h : Folding(h, entries, n)
           g == CHOOSE h : Folding(h, longer, n + 1)
<1>2. Folding(f, entries, n)
  BY <1>1, FoldingExists
<1>3. Folding(g, longer, n + 1)
  BY <1>1, FoldingExists
<1>4. TotalCredits(entries) = f[1 .. n] /\ TotalCredits(longer) = g[1 .. n + 1]
  <2>1. n + 1 \in Nat /\ DOMAIN longer = 1 .. n + 1
    BY <1>1
  <2> HIDE DEF n, longer
  <2>2. TotalCredits(entries) = f[1 .. n]
    BY <1>1, TotalIsFold
  <2>3. TotalCredits(longer) = g[1 .. n + 1]
    BY <2>1, TotalIsFold
  <2>4. QED
    BY <2>2, <2>3
<1> HIDE DEF n, longer, f, g
<1>5. f[1 .. n] = g[1 .. n]
  <2>1. n + 1 \in Nat /\ n <= n + 1
    BY <1>1
  <2>2. QED
    BY <1>1, <1>2, <1>3, <2>1, FoldingSame
<1>6. g[1 .. n + 1] = g[1 .. n] + longer[n + 1].credits
  BY <1>1, <1>3, FoldingPrefix
<1>7. TotalCredits(longer) = TotalCredits(entries) + e.credits
  BY <1>1, <1>4, <1>5, <1>6
<1>8. QED
  BY <1>7 DEF longer

-----------------------------------------------------------------------------
(* The credits.                                                            *)

LEMMA ResearchInit == Init => ResearchInv
<1>1. ASSUME Init
      PROVE  ResearchInv
  <2>1. telemetry = <<>> /\ research = None /\ served.credits = 0
    BY <1>1 DEF Init
  <2>2. <<>> \in Seq(Telemetry)
    OBVIOUS
  <2>3. QED
    BY <2>1, <2>2, TotalOfNone DEF ResearchInv, Telemetry
<1>2. QED
  BY <1>1

\* A record adds its credits to the total.
LEMMA EmitAdds ==
  ASSUME CallsInv, ResearchInv, NEW outcome \in {"success", "transient-error", "aborted", "error"},
         NEW credits \in Nat, Tavily \/ credits = 0, Emit(outcome, credits)
  PROVE  /\ telemetry' \in Seq(Telemetry)
         /\ TotalCredits(telemetry') = TotalCredits(telemetry) + credits
<1>1. telemetry \in Seq(Telemetry) /\ TotalCredits(telemetry) = served.credits
  BY DEF ResearchInv, Telemetry
<1>2. served.credits \in Nat /\ http.attempt \in Nat
  BY DEF CallsInv, CallsTypeOK
<1>3. CASE Tavily
  <2> DEFINE e == [outcome |-> outcome, retryCount |-> http.attempt, credits |-> credits]
  <2>1. e \in Telemetry /\ e.credits = credits /\ telemetry' = Append(telemetry, e)
    BY <1>2, <1>3 DEF Emit, Telemetry
  <2> HIDE DEF e
  <2>2. QED
    BY <1>1, <2>1, TotalOfAppend
<1>4. CASE ~Tavily
  <2>1. telemetry' = telemetry /\ credits = 0
    BY <1>4 DEF Emit
  <2>2. QED
    BY <1>1, <1>2, <2>1
<1>5. QED
  BY <1>3, <1>4

\* Nothing charged, and no step back to the research.
LEMMA NothingCharged ==
  ASSUME CallsInv, ResearchInv,
         telemetry' \in Seq(Telemetry), TotalCredits(telemetry') = TotalCredits(telemetry),
         served'.credits = served.credits, research' = research,
         step' = step \/ step' \notin {"catalog", "search", "extract"} \/ research = None
  PROVE  ResearchInv'
  BY DEF ResearchInv, Telemetry

LEMMA ChargedOnce ==
  ASSUME CallsInv, ResearchInv, Tavily, Emit("success", 1), Charged
  PROVE  /\ telemetry' \in Seq(Telemetry)
         /\ TotalCredits(telemetry') = served'.credits
         /\ research = None
<1>1. served'.credits = served.credits + 1
  BY DEF CallsInv, CallsTypeOK, Charged
<1>2. telemetry' \in Seq(Telemetry) /\ TotalCredits(telemetry') = TotalCredits(telemetry) + 1
  BY EmitAdds
<1>3. QED
  BY <1>1, <1>2 DEF ResearchInv, Tavily

\* Whatever the query brought back, it was charged.
LEMMA QueryCharged ==
  ASSUME CallsInv, ResearchInv, Tavily, Emit("success", 1), Charged,
         NEW found, AfterQuery(found)
  PROVE  ResearchInv'
<1>1. /\ telemetry' \in Seq(Telemetry)
      /\ TotalCredits(telemetry') = served'.credits /\ research = None
  BY ChargedOnce
<1>2. CASE found
  BY <1>1, <1>2 DEF AfterQuery, ResearchInv, Telemetry
<1>3. CASE ~found
  BY <1>1, <1>3 DEF AfterQuery, ResearchInv, Telemetry
<1>4. QED
  BY <1>2, <1>3

LEMMA SearchDoneCharged == CallsInv /\ ResearchInv /\ SearchDone => ResearchInv'
<1>1. SUFFICES ASSUME CallsInv, ResearchInv, SearchDone
               PROVE  ResearchInv'
  OBVIOUS
<1>2. Tavily /\ Emit("success", 1) /\ Charged
  BY <1>1 DEF SearchDone, Tavily
<1>3. CASE AfterQuery(FALSE)
  BY <1>1, <1>2, <1>3, QueryCharged
<1>4. CASE step' = "extract" /\ UNCHANGED research
  BY <1>1, <1>2, <1>4, ChargedOnce DEF ResearchInv, Telemetry
<1>5. QED
  BY <1>1, <1>3, <1>4 DEF SearchDone

LEMMA ExtractDoneCharged == CallsInv /\ ResearchInv /\ ExtractDone => ResearchInv'
<1>1. SUFFICES ASSUME CallsInv, ResearchInv, ExtractDone
               PROVE  ResearchInv'
  OBVIOUS
<1>2. Tavily /\ Emit("success", 1) /\ Charged
  BY <1>1 DEF ExtractDone, Tavily
<1>3. PICK found \in BOOLEAN : AfterQuery(found)
  BY <1>1 DEF ExtractDone
<1>4. QED
  BY <1>1, <1>2, <1>3, QueryCharged

\* An answer that ends an attempt is recorded and not charged.
LEMMA AnswersUncharged ==
  CallsInv /\ ResearchInv /\ (AnswerTransient \/ AnswerRefused \/ NoAnswer) => ResearchInv'
<1>1. SUFFICES ASSUME CallsInv, ResearchInv, AnswerTransient \/ AnswerRefused \/ NoAnswer
               PROVE  ResearchInv'
  OBVIOUS
<1>2. /\ \E outcome \in {"transient-error", "aborted", "error"} : Emit(outcome, 0)
      /\ UNCHANGED <<research, served>>
      /\ step' = step \/ step' = "failed"
  BY <1>1 DEF AnswerTransient, AnswerRefused, NoAnswer, Failed
<1>3. /\ telemetry' \in Seq(Telemetry)
      /\ TotalCredits(telemetry') = TotalCredits(telemetry) + 0
  BY <1>1, <1>2, EmitAdds
<1>4. TotalCredits(telemetry) \in Nat
  BY <1>1 DEF CallsInv, CallsTypeOK, ResearchInv
<1>5. QED
  BY <1>1, <1>2, <1>3, <1>4, NothingCharged

\* Every other step leaves the telemetry and the credits alone.
LEMMA OthersUncharged ==
  ASSUME CallsInv, ResearchInv,
         \/ Send \/ Retry \/ AnswerOK \/ BodyUnusable \/ ListModels
         \/ Completed \/ SchemaMissed \/ Assemble \/ RecordFails \/ UNCHANGED vars
  PROVE  ResearchInv'
<1>1. UNCHANGED <<telemetry, research>>
  BY DEF Send, Retry, Posting, AnswerOK, BodyUnusable, ListModels, Completed, SchemaMissed,
         Assemble, RecordFails, vars
<1>2. telemetry \in Seq(Telemetry)
  BY DEF ResearchInv, Telemetry
<1>3. served'.credits = served.credits
  <2>1. served \in [calls : Nat, searches : Nat, credits : Nat, patch : Seen]
    BY DEF CallsInv, CallsTypeOK
  <2>2. CASE Send \/ Retry
    BY <2>1, <2>2 DEF Send, Retry, Posting
  <2>3. CASE Completed \/ SchemaMissed
    BY <2>1, <2>3 DEF Completed, SchemaMissed, Billed
  <2>4. CASE Assemble
    <3>1. \/ UNCHANGED served
          \/ \E p : served' = [served EXCEPT !.patch = p]
      BY <2>4 DEF Assemble, PatchReturned, Accept
    <3>2. QED
      BY <2>1, <3>1
  <2>5. CASE AnswerOK \/ BodyUnusable \/ ListModels \/ RecordFails \/ UNCHANGED vars
    BY <2>5 DEF AnswerOK, BodyUnusable, ListModels, RecordFails, vars
  <2>6. QED
    BY <2>2, <2>3, <2>4, <2>5
<1>4. step' = step \/ step' \notin {"catalog", "search", "extract"} \/ research = None
  <2>1. CASE ListModels
    BY <2>1 DEF ResearchInv, ListModels
  <2>2. CASE Assemble
    BY <2>2 DEF Assemble, PatchReturned, Accept
  <2>3. CASE ~ListModels /\ ~Assemble
    BY <2>3 DEF Send, Retry, Posting, AnswerOK, BodyUnusable, Completed, SchemaMissed,
                RecordFails, Failed, vars
  <2>4. QED
    BY <2>1, <2>2, <2>3
<1>5. QED
  BY <1>1, <1>2, <1>3, <1>4, NothingCharged

LEMMA ResearchStep == CallsInv /\ ResearchInv /\ [Next]_vars => ResearchInv'
  BY SearchDoneCharged, ExtractDoneCharged, AnswersUncharged, OthersUncharged DEF Next

-----------------------------------------------------------------------------
(* The router.                                                             *)

\* The sort of the candidates has a first one, whose place no other has.
LEMMA FirstIsAhead ==
  ASSUME NEW catalog \in Catalogs, Trustworthy(catalog), Candidates(catalog) # {}
  PROVE  /\ First(Candidates(catalog)) \in Candidates(catalog)
         /\ \A n \in Candidates(catalog) \ {First(Candidates(catalog))} :
              Ahead(First(Candidates(catalog)), n)
<1> DEFINE S == Candidates(catalog)
           R == {p \in S \X S : Ahead(p[1], p[2])}
<1>1. /\ S \in SUBSET Entries /\ IsFiniteSet(S)
      /\ \A m \in S : m.family \in {"SUPER", "LIGHTNING", "ULTRA"}
      /\ \A m, n \in S : m.id = n.id => m = n
  <2>1. S \in SUBSET catalog
    BY DEF Candidates, Known, Active
  <2>2. IsFiniteSet(S)
    BY <2>1, CatalogsAreFinite, FS_Subset
  <2>3. QED
    BY <2>1, <2>2, CatalogsAreFinite DEF Candidates, Known, Active, Trustworthy
<1>2. \A m, n \in S : <<m, n>> \in R <=> Ahead(m, n)
  OBVIOUS
<1>3. \A m \in S : m.id \in Nat /\ m.structured \in BOOLEAN
  BY <1>1 DEF Entries
<1> HIDE DEF S, R
<1>4. \A m \in S : ~Ahead(m, m)
  BY <1>3 DEF Ahead
<1>5. \A l, m, n \in S : Ahead(l, m) /\ Ahead(m, n) => Ahead(l, n)
  <2>1. SUFFICES ASSUME NEW l \in S, NEW m \in S, NEW n \in S, Ahead(l, m), Ahead(m, n)
                 PROVE  Ahead(l, n)
    OBVIOUS
  <2>2. l.id < m.id /\ m.id < n.id => l.id < n.id
    BY <1>3
  <2>3. QED
    BY <1>1, <1>3, <2>1, <2>2 DEF Ahead
<1>6. \A m, n \in S : m # n => Ahead(m, n) \/ Ahead(n, m)
  <2>1. SUFFICES ASSUME NEW m \in S, NEW n \in S, m # n
                 PROVE  Ahead(m, n) \/ Ahead(n, m)
    OBVIOUS
  <2>2. m.id < n.id \/ n.id < m.id
    BY <1>1, <1>3, <2>1
  <2>3. m.family \in {"SUPER", "LIGHTNING", "ULTRA"} /\ n.family \in {"SUPER", "LIGHTNING", "ULTRA"}
    BY <1>1
  <2>4. QED
    BY <1>3, <2>2, <2>3 DEF Ahead
<1>7. \E m \in S : \A n \in S \ {m} : <<m, n>> \in R
  <2>1. S # {}
    BY DEF S
  <2>2. QED
    BY <1>1, <1>2, <1>4, <1>5, <1>6, <2>1, FirstOfFinite
<1>8. \E m \in S : \A n \in S \ {m} : Ahead(m, n)
  BY <1>2, <1>7
<1>9. QED
  BY <1>8 DEF First, S

\* Of models that fit, the one chosen is one of them.
LEMMA ChosenIsOffered ==
  ASSUME NEW catalog \in Catalogs, Trustworthy(catalog), NEW preferred,
         NEW models \in SUBSET Active(catalog), models # {}, \A m \in models : m.context # None
  PROVE  ChooseModel(models, preferred) \in models
<1> DEFINE Better(m, n) == m.context > n.context \/ (m.context = n.context /\ m.id < n.id)
           R == {p \in models \X models : Better(p[1], p[2])}
<1>1. \A m \in models : m.id \in Nat /\ m.context \in Nat
  BY CatalogsAreFinite DEF Active, Entries
<1>2. IsFiniteSet(models)
  <2>1. models \in SUBSET catalog
    BY DEF Active
  <2>2. QED
    BY <2>1, CatalogsAreFinite, FS_Subset
<1>3. \A m, n \in models : <<m, n>> \in R <=> Better(m, n)
  OBVIOUS
<1>4. \A m \in models : ~Better(m, m)
  BY <1>1
<1>5. \A l, m, n \in models : Better(l, m) /\ Better(m, n) => Better(l, n)
  BY <1>1
<1>6. \A m, n \in models : m # n => Better(m, n) \/ Better(n, m)
  <2>1. \A m, n \in models : m.id = n.id => m = n
    BY DEF Trustworthy
  <2>2. QED
    BY <1>1, <2>1
<1>7. \E m \in models : \A n \in models \ {m} : <<m, n>> \in R
  <2> HIDE DEF Better, R
  <2>1. QED
    BY <1>2, <1>3, <1>4, <1>5, <1>6, FirstOfFinite
<1>8. \E m \in models : \A n \in models \ {m} : Better(m, n)
  <2> HIDE DEF Better, R
  <2>1. QED
    BY <1>3, <1>7
<1>9. QED
  BY <1>8 DEF ChooseModel

\* What is routed fits, is of a family of the role's policy and no Lightning for a STANDARD task
\* without a certificate.
LEMMA RoutedFits ==
  ASSUME NEW catalog \in Catalogs, Trustworthy(catalog), NEW role \in DOMAIN FamilyPolicy,
         NEW preferred, NEW certified,
         RouteModel(catalog, role, preferred, certified) # None
  PROVE  LET m == RouteModel(catalog, role, preferred, certified)
         IN /\ m \in Active(catalog) /\ Fits(m)
            /\ \E k \in DOMAIN FamilyPolicy[role] : m.family = FamilyPolicy[role][k]
            /\ role = "STANDARD" /\ m.family = "LIGHTNING" => m \in certified
<1> DEFINE policy == FamilyPolicy[role]
           FitIn(k) == {m \in Known(catalog, {policy[k]}) : Fits(m)}
           filled == {k \in DOMAIN policy : FitIn(k) # {}}
           first == CHOOSE k \in filled : \A j \in filled : k <= j
           eligible == IF role = "STANDARD" /\ policy[first] = "LIGHTNING"
                         THEN FitIn(first) \cap certified
                         ELSE FitIn(first)
           m == RouteModel(catalog, role, preferred, certified)
<1>1. filled # {} /\ eligible # {} /\ m = ChooseModel(eligible, preferred)
  BY DEF RouteModel
<1>2. first \in filled
  <2>1. filled \in SUBSET Nat
    BY DEF FamilyPolicy
  <2>2. \E k \in filled : \A j \in filled : k <= j
    <3> HIDE DEF filled
    <3>1. QED
      BY <1>1, <2>1, LeastNatural
  <2>3. QED
    BY <2>2
<1>3. /\ eligible \in SUBSET FitIn(first)
      /\ role = "STANDARD" /\ policy[first] = "LIGHTNING" => eligible \in SUBSET certified
  OBVIOUS
<1>4. FitIn(first) \in SUBSET Active(catalog)
  BY DEF Known
<1>5. \A n \in FitIn(first) : n.context # None /\ n.family = policy[first] /\ Fits(n)
  BY DEF Known, Fits
<1> HIDE DEF policy, FitIn, filled, first, eligible, m
<1>6. m \in eligible
  BY <1>1, <1>3, <1>4, <1>5, ChosenIsOffered
<1>7. first \in DOMAIN policy
  BY <1>2 DEF filled
<1>8. QED
  BY <1>3, <1>4, <1>5, <1>6, <1>7 DEF m, policy

\* A Lightning model is routed only where one came first.
LEMMA LightningCameFirst ==
  ASSUME NEW catalog \in Catalogs, Trustworthy(catalog),
         SelectNvidiaDecision(catalog) # None,
         SelectNvidiaDecision(catalog).family = "LIGHTNING"
  PROVE  \E m \in catalog :
           /\ m.active /\ m.family = "LIGHTNING"
           /\ \A n \in catalog :
                (n.active /\ n.nvidia /\ n.family = "SUPER") => (m.structured /\ ~n.structured)
<1> DEFINE candidates == Candidates(catalog)
           selected == First(candidates)
           decision == SelectNvidiaDecision(catalog)
<1>1. /\ candidates # {}
      /\ decision = RouteModel(catalog, RoleOf(selected), selected, {})
  BY DEF SelectNvidiaDecision
<1>2. selected \in candidates /\ \A n \in candidates \ {selected} : Ahead(selected, n)
  BY <1>1, FirstIsAhead
<1>3. RoleOf(selected) \in DOMAIN FamilyPolicy
  BY DEF RoleOf, FamilyPolicy
<1> HIDE DEF candidates, selected
<1>4. /\ \E k \in DOMAIN FamilyPolicy[RoleOf(selected)] :
           decision.family = FamilyPolicy[RoleOf(selected)][k]
      /\ RoleOf(selected) # "STANDARD"
  BY <1>1, <1>3, RoutedFits
<1>5. RoleOf(selected) # "HEAVY"
  <2>1. \A k \in DOMAIN FamilyPolicy["HEAVY"] : FamilyPolicy["HEAVY"][k] # "LIGHTNING"
    BY DEF FamilyPolicy
  <2>2. QED
    BY <1>4, <2>1
<1>6. selected.family = "LIGHTNING"
  BY <1>4, <1>5 DEF RoleOf
<1>7. ASSUME NEW n \in catalog, n.active, n.nvidia, n.family = "SUPER"
      PROVE  selected.structured /\ ~n.structured
  <2>1. n \in candidates
    BY <1>7 DEF candidates, Candidates, Known, Active
  <2>2. Ahead(selected, n)
    BY <1>2, <1>6, <1>7, <2>1
  <2>3. QED
    BY <1>6, <1>7, <2>2 DEF Ahead
<1>8. selected \in catalog /\ selected.active
  BY <1>2 DEF candidates, Candidates, Known, Active
<1>9. QED
  BY <1>6, <1>7, <1>8

LEMMA RoutedInit == Init => RoutedInv
  BY DEF Init, RoutedInv

LEMMA ListModelsRoutes == ListModels => RoutedInv'
<1>1. SUFFICES ASSUME ListModels
               PROVE  RoutedInv'
  OBVIOUS
<1>2. PICK catalog \in Catalogs :
        LET decision == IF Trustworthy(catalog) THEN SelectNvidiaDecision(catalog) ELSE None
        IN model' = IF decision = None THEN None ELSE [entry |-> decision, catalog |-> catalog]
  BY <1>1 DEF ListModels
<1>3. ASSUME model' # None
      PROVE  /\ Trustworthy(catalog) /\ SelectNvidiaDecision(catalog) # None
             /\ model' = [entry |-> SelectNvidiaDecision(catalog), catalog |-> catalog]
  BY <1>2, <1>3
<1>4. QED
  BY <1>3 DEF RoutedInv

LEMMA RoutedKept == RoutedInv /\ UNCHANGED model => RoutedInv'
  BY DEF RoutedInv

LEMMA RoutedStep == RoutedInv /\ [Next]_vars => RoutedInv'
<1>1. Next => ListModels \/ UNCHANGED model
  BY DEF Next, Send, Retry, Posting, AnswerOK, AnswerTransient, AnswerRefused, NoAnswer,
         BodyUnusable, SearchDone, ExtractDone, Completed, SchemaMissed, Assemble, RecordFails
<1>2. UNCHANGED vars => UNCHANGED model
  BY DEF vars
<1>3. QED
  BY <1>1, <1>2, ListModelsRoutes, RoutedKept

-----------------------------------------------------------------------------
(* Theorems *)

\* The inductive invariant: how the tallies of the loops around a completion add up at each
\* step, to what the service has seen so far.
THEOREM CallsInvariant == Spec => []CallsInv
<1>1. CallsInv /\ [Next]_vars => CallsInv'
  BY SendKeeps, RetryKeeps, AnswerOKKeeps, AnswerTransientKeeps, EndsKeep, ListModelsKeeps,
     SearchDoneKeeps, ExtractDoneKeeps, CompletedKeeps, SchemaMissedKeeps, AssembleKeeps,
     CallsStutter DEF Next
<1>2. QED
  BY CallsInit, <1>1, PTL DEF Spec

\* The tally of every accepted patch counts each completion, token and request that its
\* strategy cost, of generatePatch and of the loop over the strategies.
THEOREM TalliesAreComplete == Spec => []TalliesReported
<1>1. CallsInv => TalliesReported
  BY DEF CallsInv
<1>2. QED
  BY CallsInvariant, <1>1, PTL

\* The source of an accepted patch is the one that was last validated, and no two
\* strategies have the same.
THEOREM SourcesAreChecked == Spec => []SourcesChecked
<1>1. CallsInv => SourcesChecked
  BY DEF CallsInv
<1>2. QED
  BY CallsInvariant, <1>1, PTL

\* Of the whole report on the sponsor calls: the tallies of the patches, and the credits of every
\* Tavily call that was charged, the ones of the query that brought nothing back included.
THEOREM AllIsReported == Spec => []EverythingReported
<1>1. CallsInv /\ ResearchInv => EverythingReported
  BY DEF CallsInv, ResearchInv, EverythingReported
<1>2. QED
  BY CallsInvariant, <1>1, ResearchInit, ResearchStep, PTL DEF Spec

\* The model that drives a trial is what the router makes of a trusted catalog: a Lightning model
\* only where one came first, whatever catalog is listed.
THEOREM LightningIsChosen == Spec => []NoUncertifiedFallback
<1>1. RoutedInv => NoUncertifiedFallback
  BY LightningCameFirst DEF RoutedInv, NoUncertifiedFallback
<1>2. QED
  BY <1>1, RoutedInit, RoutedStep, PTL DEF Spec
=============================================================================
