----------------------- MODULE DidGraphQLClientProofs -----------------------
(***************************************************************************)
(* Proofs about DidGraphQLClient for every set of calls, capabilities and  *)
(* URLs, every combination of the client's options, and every bound on the *)
(* clock.                                                                  *)
(***************************************************************************)
EXTENDS DidGraphQLClient, TLAPS

-----------------------------------------------------------------------------
(***************************************************************************)
(* The inductive invariant.                                                *)
(***************************************************************************)

Pinned(url) ==
    /\ url \in AllowedUrls
    /\ expectedTarget # NoUrl => url = Canonical[expectedTarget]

\* The client holds a capability the options accept, and the endpoint it names.
HeldIsPinned == endpoint = Target(capability) /\ Pinned(endpoint)

\* What is being signed was held when the call was made; what is held now was
\* acceptable then or later, so its deadline is not before the call.
SigningIsSound(r) ==
    r.pc = "signing" =>
        /\ r.kind = "query" /\ r.sentTo = NoUrl
        /\ r.signedFor = [capability |-> r.carries, endpoint |-> Target(r.carries)]
        /\ CheckExpiry => r.askedAt <= Expires[r.carries] /\ r.askedAt <= Expires[capability]

\* The promises about one request that was sent.
SentIsSound(r) ==
    r.sentTo # NoUrl =>
        /\ Pinned(r.sentTo)
        /\ CheckExpiry /\ r.kind = "query" => r.askedAt <= Expires[r.carries]
        /\ IF mode = "httpSignature" /\ r.kind = "query"
           THEN r.signedFor = [capability |-> r.carries, endpoint |-> Target(r.carries)]
           ELSE r.sentTo = Target(r.carries)

Sound(r) ==
    r \in CallRecords /\ r.askedAt <= now /\ SigningIsSound(r) /\ SentIsSound(r)

Inv ==
    /\ TypeOK
    /\ HeldIsPinned
    /\ \A q \in Calls : Sound(call[q])

-----------------------------------------------------------------------------
(***************************************************************************)
(* What an accepted capability guarantees, and the records the calls make. *)
(***************************************************************************)

\* The target of a capability is a canonical URL, and canonical again.
LEMMA TargetIsCanonical ==
    ASSUME NEW cap \in Capabilities
    PROVE  Target(cap) \in CanonicalUrls /\ Canonical[Target(cap)] = Target(cap)
BY CapabilityAssumption DEF Target, CanonicalUrls

\* Acceptance implies the pins and, if expiry is checked, an open deadline.
LEMMA AcceptableIsPinned ==
    ASSUME NEW cap \in Capabilities, Acceptable(cap)
    PROVE  Pinned(Target(cap)) /\ (CheckExpiry => ~IsExpired(cap))
BY DEF Acceptable, Pinned, SameEndpoint, Target

\* Until the clock has passed it, a deadline is not before now.
LEMMA OpenDeadline ==
    ASSUME NEW cap \in Capabilities, now \in Nat, ~IsExpired(cap)
    PROVE  now <= Expires[cap]
<1>1. Expires[cap] \in Nat
  BY CapabilityAssumption
<1> QED
  BY <1>1 DEF IsExpired

\* A new call.
LEMMA AskedType ==
    ASSUME TypeOK, NEW kind \in {"query", "checkAuth"}, NEW hasSignal \in BOOLEAN
    PROVE  /\ Asked(kind, hasSignal) \in CallRecords
           /\ Asked(kind, hasSignal).askedAt = now
           /\ Asked(kind, hasSignal).kind = kind
           /\ Asked(kind, hasSignal).sentTo = NoUrl
           /\ Asked(kind, hasSignal).pc = "idle"
           /\ NoCall \in CallRecords
<1>1. (CHOOSE cap \in Capabilities : TRUE) \in Capabilities
  BY DEF TypeOK
<1>2. 0 \in 0..MaxTime
  BY OptionAssumption
<1>3. NoCall \in CallRecords
  BY <1>1, <1>2 DEF NoCall, CallRecords, Results
<1> QED
  BY <1>3 DEF Asked, NoCall, CallRecords, TypeOK

\* A call that settles without having been sent.
LEMMA SettledSound ==
    ASSUME NEW r \in CallRecords, r.askedAt <= now, SentIsSound(r), NEW result \in Results
    PROVE  Sound(Settled(r, result))
BY DEF Sound, Settled, CallRecords, SigningIsSound, SentIsSound

\* A request that fetchJson sends under the held capability, or under the one
\* whose HTTP signature has just arrived.
LEMMA FetchJsonSound ==
    ASSUME TypeOK, HeldIsPinned,
           NEW r \in CallRecords, r.askedAt <= now, r.sentTo = NoUrl,
           NEW cap \in Capabilities, NEW invocation,
           CheckExpiry /\ r.kind = "query" => r.askedAt <= Expires[cap],
           IF mode = "httpSignature" /\ r.kind = "query"
           THEN r.signedFor = [capability |-> cap, endpoint |-> Target(cap)]
           ELSE cap = capability
    PROVE  Sound(FetchJson(r, cap, invocation))
<1>1. CASE HeaderFits(cap, invocation)
  <2> DEFINE s == [r EXCEPT !.pc = "sent", !.carries = cap, !.sentTo = endpoint]
  <2>1. s \in CallRecords
    BY DEF TypeOK, CallRecords
  <2>2. /\ s.pc = "sent" /\ s.carries = cap /\ s.sentTo = endpoint /\ s.kind = r.kind
        /\ s.askedAt = r.askedAt /\ s.signedFor = r.signedFor
    BY DEF CallRecords
  <2>3. FetchJson(r, cap, invocation) = s
    BY <1>1 DEF FetchJson
  <2> HIDE DEF s
  <2> QED
    BY <2>1, <2>2, <2>3 DEF Sound, SigningIsSound, SentIsSound, HeldIsPinned
<1>2. CASE ~HeaderFits(cap, invocation)
  <2>1. SentIsSound(r) /\ "tooLarge" \in Results
    BY DEF SentIsSound, Results
  <2> QED
    BY <1>2, <2>1, SettledSound DEF FetchJson
<1> QED
  BY <1>1, <1>2

\* A query that is refused, sent unsigned, or handed to the signer.
LEMMA QueryStepSound ==
    ASSUME Inv, NEW hasSignal \in BOOLEAN
    PROVE  Sound(QueryStep(Asked("query", hasSignal)))
<1> DEFINE r == Asked("query", hasSignal)
<1>1. /\ r \in CallRecords /\ r.askedAt = now /\ r.kind = "query"
      /\ r.sentTo = NoUrl /\ r.pc = "idle"
  BY AskedType DEF Inv
<1> HIDE DEF r
<1>2. now \in Nat /\ capability \in Capabilities /\ mode \in Modes
  BY OptionAssumption DEF Inv, TypeOK
<1>3. SentIsSound(r) /\ r.askedAt <= now
  BY <1>1, <1>2 DEF SentIsSound
<1>4. CASE CheckExpiry /\ IsExpired(capability)
  <2>1. QueryStep(r) = Settled(r, "expired") /\ "expired" \in Results
    BY <1>4 DEF QueryStep, Results
  <2> QED
    BY <1>1, <1>3, <2>1, SettledSound DEF r
<1>5. CASE ~(CheckExpiry /\ IsExpired(capability))
  <2>1. CheckExpiry => r.askedAt <= Expires[capability]
    BY <1>1, <1>2, <1>5, OpenDeadline
  <2>2. CASE mode = "unsafe"
    <3>1. QueryStep(r) = FetchJson(r, capability, FALSE)
      BY <1>5, <2>2 DEF QueryStep
    <3> QED
      BY <1>1, <1>2, <1>3, <2>1, <2>2, <3>1, FetchJsonSound DEF Inv, r
  <2>3. CASE mode = "none"
    <3>1. QueryStep(r) = Settled(r, "noSigner") /\ "noSigner" \in Results
      BY <1>5, <2>3 DEF QueryStep, Results
    <3> QED
      BY <1>1, <1>3, <3>1, SettledSound DEF r
  <2>4. CASE mode \notin {"unsafe", "none"}
    <3> DEFINE s == Sign(r)
    <3>1. QueryStep(r) = s
      BY <1>5, <2>4 DEF QueryStep
    <3>2. endpoint = Target(capability) /\ endpoint \in CanonicalUrls
      BY DEF Inv, HeldIsPinned, TypeOK
    <3>3. s \in CallRecords
      BY <1>1, <1>2, <3>2 DEF CallRecords, Sign, Proofs
    <3>4. /\ s.carries = capability /\ s.kind = "query" /\ s.sentTo = NoUrl
          /\ s.askedAt = now
          /\ s.signedFor = [capability |-> capability, endpoint |-> Target(capability)]
      BY <1>1, <3>2 DEF CallRecords, Sign
    <3> HIDE DEF s
    <3> QED
      BY <1>1, <1>2, <2>1, <3>1, <3>3, <3>4 DEF Sound, SigningIsSound, SentIsSound, r
  <2> QED
    BY <2>2, <2>3, <2>4
<1> QED
  BY <1>4, <1>5

-----------------------------------------------------------------------------
(***************************************************************************)
(* The invariant is inductive.                                             *)
(***************************************************************************)

\* A call alone has changed, to a sound record.
LEMMA ProceedSound ==
    ASSUME Inv, NEW q \in Calls, NEW r, Sound(r),
           call' = [call EXCEPT ![q] = r], UNCHANGED <<options, capability, endpoint, now>>
    PROVE  Inv'
<1>1. UNCHANGED <<mode, expectedTarget, capability, endpoint, now>>
  BY DEF options
<1>2. call' \in [Calls -> CallRecords]
  BY DEF Inv, TypeOK, Sound
<1>3. \A p \in Calls : call'[p] = IF p = q THEN r ELSE call[p]
  BY DEF Inv, TypeOK
<1>4. \A p \in Calls : Sound(call'[p])
  BY <1>3 DEF Inv
<1>5. \A p \in Calls : Sound(call[p])'
  BY <1>1, <1>4 DEF Sound, SigningIsSound, SentIsSound, Pinned
<1>6. TypeOK' /\ HeldIsPinned'
  BY <1>1, <1>2 DEF Inv, TypeOK, HeldIsPinned, Pinned, Target
<1> QED
  BY <1>5, <1>6 DEF Inv

\* A request that is out keeps its promises whatever becomes of it.
LEMMA InFlightSound ==
    ASSUME Inv, NEW q \in Calls, NEW r \in CallRecords,
           r.askedAt = call[q].askedAt, r.kind = call[q].kind, r.sentTo = call[q].sentTo,
           r.carries = call[q].carries, r.signedFor = call[q].signedFor,
           r.pc = "signing" => call[q].pc = "signing"
    PROVE  Sound(r)
BY DEF Inv, Sound, SigningIsSound, SentIsSound

LEMMA InvInit == Init => Inv
<1> SUFFICES ASSUME Init PROVE Inv
  OBVIOUS
<1>1. capability \in Capabilities /\ Acceptable(capability) /\ endpoint = Target(capability)
  BY DEF Init
<1>2. HeldIsPinned
  BY <1>1, AcceptableIsPinned DEF HeldIsPinned
<1>3. NoCall \in CallRecords
  <2>1. (CHOOSE cap \in Capabilities : TRUE) \in Capabilities
    BY <1>1
  <2>2. 0 \in 0..MaxTime
    BY OptionAssumption
  <2> QED
    BY <2>1, <2>2 DEF NoCall, CallRecords, Results
<1>4. TypeOK
  BY <1>1, <1>3, TargetIsCanonical, OptionAssumption DEF Init, TypeOK
<1>5. \A q \in Calls : Sound(call[q])
  <2>1. NoCall.pc = "idle" /\ NoCall.sentTo = NoUrl /\ NoCall.askedAt <= now
    BY DEF Init, NoCall
  <2>2. Sound(NoCall)
    BY <1>3, <2>1 DEF Sound, SigningIsSound, SentIsSound
  <2> QED
    BY <2>2 DEF Init
<1> QED
  BY <1>2, <1>4, <1>5 DEF Inv

LEMMA SetCapabilityKeepsInv == Inv /\ SetCapability => Inv'
<1> SUFFICES ASSUME Inv, SetCapability PROVE Inv'
  OBVIOUS
<1>1. PICK cap \in Capabilities :
          Acceptable(cap) /\ capability' = cap /\ endpoint' = Target(cap)
  BY DEF SetCapability
<1>2. UNCHANGED <<mode, expectedTarget, call, now>>
  BY DEF SetCapability, options
<1>3. Pinned(Target(cap)) /\ Target(cap) \in CanonicalUrls
  BY AcceptableIsPinned, <1>1, TargetIsCanonical
<1>4. TypeOK' /\ HeldIsPinned'
  BY <1>1, <1>2, <1>3 DEF Inv, TypeOK, HeldIsPinned, Pinned, Target
<1>5. ASSUME NEW q \in Calls PROVE Sound(call[q])'
  <2>1. Sound(call[q]) /\ call'[q] = call[q]
    BY <1>2 DEF Inv
  <2>2. CheckExpiry => call[q].askedAt <= Expires[cap]
    <3>1. now \in Nat /\ call[q].askedAt \in Nat /\ Expires[cap] \in Nat
      BY <2>1, CapabilityAssumption, OptionAssumption DEF Inv, TypeOK, Sound, CallRecords
    <3>2. CheckExpiry => now <= Expires[cap]
      BY <1>1, <3>1, AcceptableIsPinned, OpenDeadline
    <3>3. call[q].askedAt <= now
      BY <2>1 DEF Sound
    <3> QED
      BY <3>1, <3>2, <3>3
  <2> QED
    BY <1>1, <1>2, <2>1, <2>2 DEF Sound, SigningIsSound, SentIsSound, Pinned, Target
<1> QED
  BY <1>4, <1>5 DEF Inv

LEMMA SignerAnswersKeepsInv ==
    ASSUME Inv, NEW q \in Calls, SignerAnswers(q)
    PROVE  Inv'
<1>1. /\ Sound(call[q]) /\ call[q].pc = "signing" /\ call[q] \in CallRecords
      /\ TypeOK /\ HeldIsPinned
  BY DEF Inv, SignerAnswers, Sound
<1>2. /\ call[q].kind = "query" /\ call[q].sentTo = NoUrl /\ call[q].askedAt <= now
      /\ call[q].signedFor = [capability |-> call[q].carries,
                              endpoint |-> Target(call[q].carries)]
      /\ CheckExpiry => /\ call[q].askedAt <= Expires[call[q].carries]
                        /\ call[q].askedAt <= Expires[capability]
  BY <1>1 DEF Sound, SigningIsSound
<1>3. call[q].carries \in Capabilities /\ capability \in Capabilities
  BY <1>1 DEF CallRecords, TypeOK
<1>4. CASE mode = "httpSignature"
  <2>1. Sound(FetchJson(call[q], call[q].carries, FALSE))
    BY <1>1, <1>2, <1>3, <1>4, FetchJsonSound
  <2> QED
    BY <1>4, <2>1, ProceedSound DEF SignerAnswers, Proceed
<1>5. CASE mode # "httpSignature"
  <2>1. Sound(FetchJson(call[q], capability, TRUE))
    BY <1>1, <1>2, <1>3, <1>5, FetchJsonSound
  <2> QED
    BY <1>5, <2>1, ProceedSound DEF SignerAnswers, Proceed
<1> QED
  BY <1>4, <1>5

LEMMA CheckAuthKeepsInv ==
    ASSUME Inv, NEW q \in Calls, CheckAuth(q)
    PROVE  Inv'
<1> DEFINE r == Asked("checkAuth", FALSE)
<1>1. r \in CallRecords /\ r.askedAt = now /\ r.kind = "checkAuth" /\ r.sentTo = NoUrl
  BY AskedType DEF Inv
<1> HIDE DEF r
<1>2. now <= now /\ capability \in Capabilities /\ TypeOK /\ HeldIsPinned
  BY OptionAssumption DEF Inv, TypeOK
<1>3. Sound(FetchJson(r, capability, FALSE))
  BY <1>1, <1>2, FetchJsonSound
<1> QED
  BY <1>3, ProceedSound DEF CheckAuth, r

\* The steps of a call that has been made leave what it carries alone.
LEMMA ProgressKeepsInv ==
    ASSUME Inv, NEW q \in Calls,
           \/ SignerFails(q) \/ CancelByCaller(q) \/ TimerFires(q) \/ HeadersArrive(q)
           \/ BodyArrives(q) \/ FetchAborts(q) \/ FetchFails(q)
    PROVE  Inv'
<1>1. call[q] \in CallRecords
  BY DEF Inv, TypeOK
<1>2. PICK r :
          /\ r \in CallRecords
          /\ r.askedAt = call[q].askedAt /\ r.kind = call[q].kind
          /\ r.sentTo = call[q].sentTo /\ r.carries = call[q].carries
          /\ r.signedFor = call[q].signedFor
          /\ r.pc = "signing" => call[q].pc = "signing"
          /\ Proceed(q, r)
  <2>1. CASE SignerFails(q)
    BY <1>1, <2>1 DEF SignerFails, Settled, CallRecords, Results
  <2>2. CASE CancelByCaller(q)
    BY <1>1, <2>2 DEF CancelByCaller, CallRecords
  <2>3. CASE TimerFires(q)
    BY <1>1, <2>3 DEF TimerFires, CallRecords
  <2>4. CASE HeadersArrive(q)
    BY <1>1, <2>4 DEF HeadersArrive, CallRecords
  <2>5. CASE BodyArrives(q)
    BY <1>1, <2>5 DEF BodyArrives, Settled, CallRecords, Results
  <2>6. CASE FetchAborts(q)
    BY <1>1, <2>6 DEF FetchAborts, Rejects, Settled, CallRecords, Results
  <2>7. CASE FetchFails(q)
    BY <1>1, <2>7 DEF FetchFails, Rejects, Settled, CallRecords, Results
  <2> QED
    BY <2>1, <2>2, <2>3, <2>4, <2>5, <2>6, <2>7
<1>3. Sound(r)
  BY <1>2, InFlightSound
<1> QED
  BY <1>2, <1>3, ProceedSound DEF Proceed

LEMMA InvStep == Inv /\ [Next]_vars => Inv'
<1> SUFFICES ASSUME Inv, [Next]_vars PROVE Inv'
  OBVIOUS
<1>1. CASE SetCapability
  BY <1>1, SetCapabilityKeepsInv
<1>2. ASSUME NEW q \in Calls, Query(q) PROVE Inv'
  <2>1. PICK hasSignal \in BOOLEAN :
            call' = [call EXCEPT ![q] = QueryStep(Asked("query", hasSignal))]
    BY <1>2 DEF Query
  <2> QED
    BY <1>2, <2>1, QueryStepSound, ProceedSound DEF Query
<1>3. ASSUME NEW q \in Calls, CheckAuth(q) PROVE Inv'
  BY <1>3, CheckAuthKeepsInv
<1>4. ASSUME NEW q \in Calls, SignerAnswers(q) PROVE Inv'
  BY <1>4, SignerAnswersKeepsInv
<1>5. ASSUME NEW q \in Calls,
             \/ SignerFails(q) \/ CancelByCaller(q) \/ TimerFires(q) \/ HeadersArrive(q)
             \/ BodyArrives(q) \/ FetchAborts(q) \/ FetchFails(q)
      PROVE  Inv'
  BY <1>5, ProgressKeepsInv
<1>6. CASE Tick
  <2>1. UNCHANGED <<mode, expectedTarget, capability, endpoint, call>> /\ now' = now + 1
        /\ now < MaxTime
    BY <1>6 DEF Tick, options
  <2>2. now \in 0..MaxTime /\ MaxTime \in Nat
    BY OptionAssumption DEF Inv, TypeOK
  <2>3. now' \in 0..MaxTime
    BY <2>1, <2>2
  <2>4. TypeOK' /\ HeldIsPinned'
    BY <2>1, <2>3 DEF Inv, TypeOK, HeldIsPinned, Pinned, Target
  <2>5. ASSUME NEW q \in Calls PROVE Sound(call[q])'
    <3>1. Sound(call[q]) /\ call[q].askedAt \in 0..MaxTime
      BY DEF Inv, Sound, CallRecords
    <3>2. call[q].askedAt <= now'
      BY <2>1, <2>2, <3>1 DEF Sound
    <3> QED
      BY <2>1, <3>1, <3>2 DEF Sound, SigningIsSound, SentIsSound, Pinned
  <2> QED
    BY <2>4, <2>5 DEF Inv
<1>7. CASE UNCHANGED vars
  BY <1>7 DEF vars, options, Inv, TypeOK, HeldIsPinned, Pinned, Target, Sound,
              SigningIsSound, SentIsSound
<1> QED
  BY <1>1, <1>2, <1>3, <1>4, <1>5, <1>6, <1>7 DEF Next

LEMMA InvHolds == Spec => []Inv
BY InvInit, InvStep, PTL DEF Spec

-----------------------------------------------------------------------------
(***************************************************************************)
(* What the client promises.                                               *)
(***************************************************************************)

\* Type correctness; in particular the endpoint stays in canonical form.
THEOREM TypeCorrect == Spec => []TypeOK
<1>1. Inv => TypeOK
  BY DEF Inv
<1> QED
  BY <1>1, InvHolds, PTL

\* However signing interleaves with setCapability(), a request is consistent:
\* it goes where its capability says, or its signature covers both.
THEOREM RequestIsConsistentHolds == Spec => []RequestIsConsistent
<1>1. Inv => RequestIsConsistent
  BY DEF Inv, Sound, SentIsSound, RequestIsConsistent, Sent
<1> QED
  BY <1>1, InvHolds, PTL

\* The constructor's pin and host rules bind every request of the client's life.
THEOREM RequestsStayPinnedHolds == Spec => []RequestsStayPinned
<1>1. Inv => RequestsStayPinned
  BY DEF Inv, Sound, SentIsSound, Pinned, RequestsStayPinned, Sent
<1> QED
  BY <1>1, InvHolds, PTL

\* No query carries a capability that had expired before it was made.
THEOREM ExpiredNeverInvokedHolds == Spec => []ExpiredNeverInvoked
<1>1. Inv => ExpiredNeverInvoked
  BY DEF Inv, Sound, SentIsSound, ExpiredNeverInvoked, Sent
<1> QED
  BY <1>1, InvHolds, PTL
=============================================================================
