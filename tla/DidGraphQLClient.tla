-------------------------- MODULE DidGraphQLClient --------------------------
(***************************************************************************)
(* The client of client/src/client.ts: one object that holds a delegated   *)
(* capability and the endpoint validated for it, setCapability() that      *)
(* swaps both, and concurrent query() and checkAuth() calls whose signing  *)
(* and fetching are asynchronous.                                          *)
(*                                                                         *)
(* query() runs up to its signer's `await` in one callback and from the    *)
(* signature on in another; a capability may be swapped in between.        *)
(***************************************************************************)
EXTENDS Naturals

CONSTANTS
    Calls,              \* query() and checkAuth() calls, a slot is reused
    Capabilities,       \* capability documents
    WellFormed,         \* those that pass the checks on their own fields
    Urls,               \* spellings of GraphQL endpoints
    InvocationTarget,   \* InvocationTarget[capability], as spelled
    Canonical,          \* Canonical[url], one of Urls
    Expires,            \* Expires[capability]
    CapabilityBytes,    \* size of the header that carries it alone
    InvocationBytes,    \* what an embedded invocation adds to that
    \* options of the constructor
    Modes,              \* the ways of signing to consider
    Endpoint,           \* the endpoint option, or NoUrl
    ExpectedTargets,    \* the values of expectedInvocationTarget to consider
    AllowedUrls,        \* canonical URLs the transport and host rules accept
    CheckExpiry,        \* checkExpiryBeforeSend
    TimeoutMs,          \* 0: no timer
    MaxHeaderBytes,     \* 0: no limit
    NoUrl, NoProof,
    MaxTime             \* bound on the clock

ASSUME CapabilityAssumption ==
    /\ WellFormed \subseteq Capabilities
    /\ InvocationTarget \in [Capabilities -> Urls]
    /\ Canonical \in [Urls -> Urls]
    /\ \A url \in Urls : Canonical[Canonical[url]] = Canonical[url]
    /\ Expires \in [Capabilities -> Nat]
    /\ CapabilityBytes \in [Capabilities -> Nat] /\ InvocationBytes \in Nat

ASSUME OptionAssumption ==
    /\ Modes \subseteq {"unsafe", "httpSignature", "invokeCapability", "none"}
    /\ Endpoint \in Urls \cup {NoUrl} /\ ExpectedTargets \subseteq Urls \cup {NoUrl}
    /\ NoUrl \notin Urls
    /\ CheckExpiry \in BOOLEAN /\ TimeoutMs \in Nat /\ MaxHeaderBytes \in Nat
    /\ MaxTime \in Nat

VARIABLES
    mode,           \* how this client signs
    expectedTarget, \* its expectedInvocationTarget, or NoUrl
    capability,     \* this.capability
    endpoint,       \* this.endpoint
    call,           \* what became of every call
    now             \* Date.now()

options == <<mode, expectedTarget>>

vars == <<options, capability, endpoint, call, now>>

-----------------------------------------------------------------------------
(***************************************************************************)
(* validateGraphqlZcap.                                                    *)
(***************************************************************************)

\* The URL a request may be sent to under the capability.
Target(cap) == Canonical[InvocationTarget[cap]]

SameEndpoint(url, pin) == pin # NoUrl => Canonical[url] = Canonical[pin]

\* BUG: the deadline is met one unit of time late.
BugIsExpired(cap) == now > Expires[cap] + 1

\* A capability is good up to and including its deadline.
IsExpired(cap) == now > Expires[cap]

\* BUG: validation without the options the client was made with.
BugAcceptable(cap) == cap \in WellFormed /\ ~IsExpired(cap)

\* What the options the client keeps demand of every capability.
Acceptable(cap) ==
    /\ cap \in WellFormed
    /\ Target(cap) \in AllowedUrls
    /\ SameEndpoint(InvocationTarget[cap], expectedTarget)
    /\ CheckExpiry => ~IsExpired(cap)

-----------------------------------------------------------------------------
NoCall == [pc |-> "idle", kind |-> "query", result |-> "none",
           carries |-> CHOOSE cap \in Capabilities : TRUE, signedFor |-> NoProof,
           sentTo |-> NoUrl, askedAt |-> 0, hasSignal |-> FALSE,
           cancelled |-> FALSE, timedOut |-> FALSE]

\* The constructor validates with the endpoint option as well, or throws.
Init ==
    /\ now = 0
    /\ mode \in Modes
    /\ expectedTarget \in ExpectedTargets
    /\ capability \in {cap \in Capabilities :
                          Acceptable(cap) /\ SameEndpoint(InvocationTarget[cap], Endpoint)}
    /\ endpoint = Target(capability)
    /\ call = [q \in Calls |-> NoCall]

\* BUG: the endpoint stays that of the first capability.
BugSetCapability ==
    /\ \E cap \in Capabilities : Acceptable(cap) /\ capability' = cap
    /\ UNCHANGED <<options, endpoint, call, now>>

\* BUG: the target is kept as it is spelled.
BugKeepsSpelling ==
    /\ \E cap \in Capabilities :
          /\ Acceptable(cap)
          /\ capability' = cap
          /\ endpoint' = InvocationTarget[cap]
    /\ UNCHANGED <<options, call, now>>

\* setCapability; an unacceptable capability changes nothing.
SetCapability ==
    /\ \E cap \in Capabilities :
          /\ Acceptable(cap)
          /\ capability' = cap
          /\ endpoint' = Target(cap)
    /\ UNCHANGED <<options, call, now>>

-----------------------------------------------------------------------------
(***************************************************************************)
(* query and checkAuth.                                                    *)
(***************************************************************************)
HeaderFits(cap, invocation) ==
    MaxHeaderBytes > 0 =>
        CapabilityBytes[cap] + (IF invocation THEN InvocationBytes ELSE 0) <= MaxHeaderBytes

Settled(record, result) == [record EXCEPT !.pc = "settled", !.result = result]

\* fetchJson: the request goes to the client's endpoint of this moment.
FetchJson(record, cap, invocation) ==
    IF HeaderFits(cap, invocation)
    THEN [record EXCEPT !.pc = "sent", !.carries = cap, !.sentTo = endpoint]
    ELSE Settled(record, "tooLarge")

\* Waiting for a signature of the held capability for the held endpoint.
Sign(record) ==
    [record EXCEPT !.pc = "signing", !.carries = capability,
                   !.signedFor = [capability |-> capability, endpoint |-> endpoint]]

Asked(kind, hasSignal) ==
    [NoCall EXCEPT !.kind = kind, !.askedAt = now, !.hasSignal = hasSignal]

QueryStep(record) ==
    IF CheckExpiry /\ IsExpired(capability) THEN Settled(record, "expired")
    ELSE CASE mode = "unsafe" -> FetchJson(record, capability, FALSE)
           [] mode = "none" -> Settled(record, "noSigner")
           [] OTHER -> Sign(record)

Ready(q) == call[q].pc \in {"idle", "settled"}

Query(q) ==
    /\ Ready(q)
    /\ \E hasSignal \in BOOLEAN :
          call' = [call EXCEPT ![q] = QueryStep(Asked("query", hasSignal))]
    /\ UNCHANGED <<options, capability, endpoint, now>>

\* Neither signed nor checked for expiry.
CheckAuth(q) ==
    /\ Ready(q)
    /\ call' = [call EXCEPT ![q] = FetchJson(Asked("checkAuth", FALSE), capability, FALSE)]
    /\ UNCHANGED <<options, capability, endpoint, now>>

Proceed(q, record) ==
    /\ call' = [call EXCEPT ![q] = record]
    /\ UNCHANGED <<options, capability, endpoint, now>>

\* The HTTP signature path sends the header it signed; the embedded path builds
\* its header from the capability held when the invocation arrives.
SignerAnswers(q) ==
    /\ call[q].pc = "signing"
    /\ Proceed(q, IF mode = "httpSignature"
                  THEN FetchJson(call[q], call[q].carries, FALSE)
                  ELSE FetchJson(call[q], capability, TRUE))

SignerFails(q) == call[q].pc = "signing" /\ Proceed(q, Settled(call[q], "signerFailed"))

-----------------------------------------------------------------------------
(***************************************************************************)
(* The fetch, its timer, and the caller's AbortSignal.                     *)
(***************************************************************************)
InFlight(q) == call[q].pc \in {"sent", "reading"}

CancelByCaller(q) ==
    /\ call[q].pc \in {"signing", "sent", "reading"}
    /\ call[q].hasSignal /\ ~call[q].cancelled
    /\ Proceed(q, [call[q] EXCEPT !.cancelled = TRUE])

TimerFires(q) ==
    /\ TimeoutMs > 0 /\ InFlight(q) /\ ~call[q].timedOut
    /\ Proceed(q, [call[q] EXCEPT !.timedOut = TRUE])

\* BUG: the caller's signal replaces the timer's.
BugCombinedSignal(q) == IF call[q].hasSignal THEN call[q].cancelled ELSE call[q].timedOut

\* combineSignals
CombinedSignal(q) == call[q].cancelled \/ call[q].timedOut

HeadersArrive(q) == call[q].pc = "sent" /\ Proceed(q, [call[q] EXCEPT !.pc = "reading"])

BodyArrives(q) == call[q].pc = "reading" /\ Proceed(q, Settled(call[q], "data"))

\* An error becomes a timeout once the timer has fired, whatever caused it.
Rejects(q, error) ==
    /\ InFlight(q)
    /\ Proceed(q, Settled(call[q], IF call[q].timedOut THEN "timeout" ELSE error))

FetchAborts(q) == CombinedSignal(q) /\ Rejects(q, "aborted")

\* A status other than 2xx, a network error, a redirect, or a body that is not JSON.
FetchFails(q) == Rejects(q, "transport")

Tick ==
    /\ now < MaxTime
    /\ now' = now + 1
    /\ UNCHANGED <<options, capability, endpoint, call>>

Next ==
    \/ SetCapability
    \/ \E q \in Calls : \/ Query(q) \/ CheckAuth(q) \/ SignerAnswers(q) \/ SignerFails(q)
                        \/ CancelByCaller(q) \/ TimerFires(q) \/ HeadersArrive(q)
                        \/ BodyArrives(q) \/ FetchAborts(q) \/ FetchFails(q)
    \/ Tick

Spec == Init /\ [][Next]_vars

\* A timer that was set fires, and fetch() rejects once its signal is aborted.
\* Neither the signer nor the server need ever answer.
Fairness == \A q \in Calls : WF_vars(TimerFires(q)) /\ WF_vars(FetchAborts(q))

FairSpec == Spec /\ Fairness

-----------------------------------------------------------------------------
(***************************************************************************)
(* What the client promises.                                               *)
(***************************************************************************)
CanonicalUrls == {Canonical[url] : url \in Urls}

Proofs == [capability : Capabilities, endpoint : CanonicalUrls]

Results == {"none", "expired", "tooLarge", "noSigner", "signerFailed", "data",
            "timeout", "aborted", "transport"}

CallRecords ==
    [pc : {"idle", "signing", "sent", "reading", "settled"}, kind : {"query", "checkAuth"},
     result : Results, carries : Capabilities, signedFor : Proofs \cup {NoProof},
     sentTo : CanonicalUrls \cup {NoUrl}, askedAt : 0..MaxTime, hasSignal : BOOLEAN,
     cancelled : BOOLEAN, timedOut : BOOLEAN]

\* Every variable has its type; the endpoint is always in canonical form.
TypeOK ==
    /\ mode \in Modes
    /\ expectedTarget \in ExpectedTargets
    /\ capability \in Capabilities
    /\ endpoint \in CanonicalUrls
    /\ call \in [Calls -> CallRecords]
    /\ now \in 0..MaxTime

Sent(q) == call[q].sentTo # NoUrl

\* client.ts: "this client will not send a ZCAP to a different host than the
\* capability authorizes".
CapabilityMeetsItsTarget ==
    \A q \in Calls : Sent(q) => call[q].sentTo = Target(call[q].carries)

\* However signing interleaves with setCapability: outside the HTTP signature
\* path a request goes to the endpoint of the capability it carries, and on that
\* path the signature covers the header that is sent and the target it names.
RequestIsConsistent ==
    \A q \in Calls : Sent(q) =>
        IF mode = "httpSignature" /\ call[q].kind = "query"
        THEN call[q].signedFor = [capability |-> call[q].carries,
                                  endpoint |-> Target(call[q].carries)]
        ELSE call[q].sentTo = Target(call[q].carries)

\* No request, of a swapped-in capability either, leaves for a URL that the pin
\* and the host rules given to the constructor exclude.
RequestsStayPinned ==
    \A q \in Calls : Sent(q) =>
        /\ call[q].sentTo \in AllowedUrls
        /\ expectedTarget # NoUrl => call[q].sentTo = Canonical[expectedTarget]

\* A query carries no capability that had already expired when the query was
\* made, even if it was swapped in while the query was being signed.
ExpiredNeverInvoked ==
    \A q \in Calls :
        CheckExpiry /\ Sent(q) /\ call[q].kind = "query" => call[q].askedAt <= Expires[call[q].carries]

\* client.ts: signing another URL than the one POSTed to "would let the
\* invocation proof vouch for a textually different URL ... than the one the
\* request is actually sent to".
ProofVouchesForRequest ==
    \A q \in Calls : Sent(q) /\ call[q].signedFor # NoProof =>
        call[q].signedFor.endpoint = call[q].sentTo

\* With a timeout, every request that is sent settles, whether or not the caller
\* passed a signal of its own, even if the server stalls within the body.
SentRequestSettles == \A q \in Calls : InFlight(q) ~> call[q].pc = "settled"
=============================================================================
