--------------------------- MODULE ChannelClients ---------------------------
(***************************************************************************)
(* What becomes of one Send (internal/feishu/feishu.go, internal/wechat/    *)
(* wechat.go).  A Feishu card is one request.  An article is a draft of an  *)
(* Official Account and takes up to five: a token, a cover, a draft, and    *)
(* the last two again when the account rejects the token.  The monitor, the *)
(* day-range service and the dashboard share one client, so the token and   *)
(* the cover it keeps are read and replaced under two locks, which are held *)
(* while the request is on its way.                                         *)
(*                                                                         *)
(* The receivers are external: a request that is taken may still be         *)
(* answered by an error, or by nothing.                                    *)
(***************************************************************************)
EXTENDS Integers, FiniteSets, SequencesExt, FiniteSetsExt

CONSTANTS
    Sender,         \* goroutines that call Send of the draft client
    OwnCover,       \* thumbMediaID is configured
    MaxPayload,     \* maxPayloadBytes
    MaxTokens,      \* bound: tokens the account issues
    MaxSends        \* bound: calls of Send

ASSUME ClientAssumption == MaxTokens \in Nat \ {0} /\ MaxSends \in Nat \ {0} /\ OwnCover \in BOOLEAN

VARIABLES
    valid,      \* account (external): the token it accepts now
    token,      \* c.token; 0 when it was invalidated
    fresh,      \* now is before c.tokenUntil
    cover,      \* c.coverID is set
    tokenLock,  \* who holds tokenMu
    coverLock,  \* who holds coverMu
    doing,      \* [Sender -> where Send is]
    purpose,    \* [Sender -> what its requests are for: "cover" or "draft"]
    attempt,    \* [Sender -> the loop variable of coverMediaID or addDraft]
    using,      \* [Sender -> the token of the request on its way]
    drafts,     \* [Sender -> drafts this Send left in the account]
    result,     \* [Sender -> what the last Send returned]
    sends

clientVars == <<valid, token, fresh, cover, tokenLock, coverLock, doing, purpose, attempt,
                using, drafts, result, sends>>

-----------------------------------------------------------------------------
(* What an answer means. *)

\* Answers of the draft account; "cut" is a request whose context ended.
Reply == {"ok", "no_id", "token_error", "api_busy", "api_refused", "http_busy",
          "http_refused", "garbled", "lost", "cut"}

\* Answers after which the receiver may all the same have taken the request.
Taking == {"ok", "no_id", "http_busy", "garbled", "lost", "cut"}

\* do, httpError, apiFailure and the checks for an empty media_id: the kind of
\* DeliveryError, "delivered" when there is none.
KindOf(reply) ==
    CASE reply = "ok" -> "delivered"
      [] reply = "cut" -> "cancelled"
      [] reply \in {"no_id", "garbled"} -> "unknown"
      [] reply \in {"lost", "http_busy", "token_error", "api_busy"} -> "retryable"
      [] reply \in {"http_refused", "api_refused"} -> "permanent"

\* Mutant of isTokenError: whatever may be tried again is.
isTokenErrorRetryable(reply) == KindOf(reply) = "retryable"

isTokenError(reply) == reply = "token_error"

\* classifyHTTPStatus and Client.Send of a bot: the kind of an answer with this
\* status and, in a body that was read, this result code ("none": it has none).
BotKind(status, body, code) ==
    LET ResultKind ==
            CASE code = "none" -> "unknown"
              [] code = "zero" -> "delivered"
              [] code = "rate" -> "retryable"
              [] code = "other" -> "permanent"
        classifyHTTPStatus ==
            CASE status \in {408, 429} \/ status >= 500 -> "retryable"
              [] status \in 400 .. 499 \ {408, 429} -> "permanent"
              [] status < 400 -> "unknown"
    IN IF ~body THEN "unknown" ELSE IF status = 200 THEN ResultKind ELSE classifyHTTPStatus

-----------------------------------------------------------------------------
(* What is left out of a card that is too large. *)

BytesOf(sections) == FoldSeq(LAMBDA s, n : n + s.bytes, 0, sections)

optionals(sections) == {i \in 1 .. Len(sections) : sections[i].optional}

\* fitStructuredPayload: one optional section after the other goes, the last one
\* first, until the card fits or none is left.  Send refuses what does not fit.
fitStructuredPayload(sections) ==
    LET Shorter(kept, section) ==
            IF BytesOf(kept) <= MaxPayload \/ optionals(kept) = {} THEN kept
            ELSE RemoveAt(kept, Max(optionals(kept)))
    IN FoldLeft(Shorter, sections, sections)

SendsCard(sections) == BytesOf(fitStructuredPayload(sections)) <= MaxPayload

\* fitPayload, for cards of the first version: the search for the longest prefix
\* that fits together with its suffix; 0 - 1 when not even the suffix does.
fitPayload(length, suffix) ==
    LET Best == {0 - 1} \cup 0 .. length
        bisect[low \in 0 .. length + 1, high \in Best, best \in Best] ==
            LET mid == (low + high) \div 2 IN
            IF low > high THEN best
            ELSE IF mid + suffix <= MaxPayload THEN bisect[mid + 1, high, mid]
            ELSE bisect[low, mid - 1, best]
    IN bisect[0, length, 0 - 1]

-----------------------------------------------------------------------------
(* The draft account's client. *)

ClientInit ==
    /\ valid = 1 /\ token = 0 /\ fresh = FALSE /\ cover = FALSE
    /\ tokenLock = {} /\ coverLock = {}
    /\ doing = [s \in Sender |-> "idle"] /\ purpose = [s \in Sender |-> "draft"]
    /\ attempt = [s \in Sender |-> 0] /\ using = [s \in Sender |-> 0]
    /\ drafts = [s \in Sender |-> 0] /\ result = [s \in Sender |-> "none"]
    /\ sends = 0

\* Send returns; a deferred unlock gives up the cover.
Return(s, kind) ==
    /\ doing' = [doing EXCEPT ![s] = "idle"]
    /\ result' = [result EXCEPT ![s] = kind]
    /\ coverLock' = coverLock \ {s}

MoveTo(s, there) == doing' = [doing EXCEPT ![s] = there]

\* Client.Send: nothing is asked when the context has ended, or without an article
\* that is valid, renders and is small enough; a configured cover needs no upload.
BeginSend(s) ==
    /\ doing[s] = "idle" /\ sends < MaxSends
    /\ sends' = sends + 1
    /\ drafts' = [drafts EXCEPT ![s] = 0]
    /\ \/ /\ \E refusal \in {"cancelled", "permanent"} :
                result' = [result EXCEPT ![s] = refusal]
          /\ UNCHANGED <<doing, purpose, attempt>>
       \/ /\ result' = [result EXCEPT ![s] = "none"]
          /\ purpose' = [purpose EXCEPT ![s] = IF OwnCover THEN "draft" ELSE "cover"]
          /\ attempt' = [attempt EXCEPT ![s] = 0]
          /\ MoveTo(s, IF OwnCover THEN "token" ELSE "cover")
    /\ UNCHANGED <<valid, token, fresh, cover, tokenLock, coverLock, using>>

\* coverMediaID behind its lock: a cover that another Send uploaded is used.
EnterCover(s) ==
    /\ doing[s] = "cover" /\ coverLock = {}
    /\ MoveTo(s, "token")
    /\ IF cover
       THEN purpose' = [purpose EXCEPT ![s] = "draft"] /\ UNCHANGED coverLock
       ELSE coverLock' = {s} /\ UNCHANGED purpose
    /\ UNCHANGED <<valid, token, fresh, cover, tokenLock, attempt, using, drafts, result, sends>>

\* accessToken: the kept token while it is fresh; else stable_token is asked and
\* the lock held meanwhile.
TakeToken(s) ==
    /\ doing[s] = "token" /\ tokenLock = {}
    /\ IF token # 0 /\ fresh
       THEN /\ using' = [using EXCEPT ![s] = token] /\ MoveTo(s, "post")
            /\ UNCHANGED tokenLock
       ELSE tokenLock' = {s} /\ MoveTo(s, "fetch") /\ UNCHANGED using
    /\ UNCHANGED <<valid, token, fresh, cover, coverLock, purpose, attempt, drafts, result, sends>>

\* stable_token answers with the token that is valid now.
TokenAnswers(s, reply) ==
    /\ doing[s] = "fetch"
    /\ tokenLock' = {}
    /\ IF reply = "ok"
       THEN /\ token' = valid /\ fresh' = TRUE
            /\ using' = [using EXCEPT ![s] = valid]
            /\ MoveTo(s, "post") /\ UNCHANGED <<result, coverLock>>
       ELSE Return(s, KindOf(reply)) /\ UNCHANGED <<token, fresh, using>>
    /\ UNCHANGED <<valid, cover, purpose, attempt, drafts, sends>>

\* The answer to add_material or draft/add.  The account rejects every token but
\* the valid one, and takes nothing with it.
PostAnswers(s, reply) ==
    /\ doing[s] = "post"
    /\ using[s] # valid => reply \notin Taking \ {"http_busy", "garbled", "lost", "cut"}
    /\ using[s] = valid => reply # "token_error"
    /\ drafts' \in {drafts} \cup
            (IF purpose[s] = "draft" /\ using[s] = valid /\ reply \in Taking
             THEN {[drafts EXCEPT ![s] = @ + 1]} ELSE {})
    /\ reply \in {"ok", "no_id"} /\ purpose[s] = "draft" => drafts' # drafts
    /\ \/ /\ isTokenError(reply) /\ attempt[s] = 0
          /\ MoveTo(s, "invalidate") /\ UNCHANGED <<cover, purpose, attempt, coverLock, result>>
       \/ /\ reply = "ok" /\ purpose[s] = "cover"
          /\ cover' = TRUE /\ coverLock' = {}
          /\ purpose' = [purpose EXCEPT ![s] = "draft"]
          /\ attempt' = [attempt EXCEPT ![s] = 0]
          /\ MoveTo(s, "token") /\ UNCHANGED result
       \/ /\ ~(isTokenError(reply) /\ attempt[s] = 0)
          /\ ~(reply = "ok" /\ purpose[s] = "cover")
          /\ Return(s, KindOf(reply)) /\ UNCHANGED <<cover, purpose, attempt>>
    /\ UNCHANGED <<valid, token, fresh, tokenLock, using, sends>>

\* invalidateToken, whatever token is kept by now, and the loop's second turn.
Invalidate(s) ==
    /\ doing[s] = "invalidate" /\ tokenLock = {}
    /\ token' = 0 /\ fresh' = FALSE
    /\ attempt' = [attempt EXCEPT ![s] = 1]
    /\ MoveTo(s, "token")
    /\ UNCHANGED <<valid, cover, tokenLock, coverLock, purpose, using, drafts, result, sends>>

\* The account gets another token, by expiry or because another program asked.
Rotate ==
    /\ valid < MaxTokens /\ valid' = valid + 1
    /\ UNCHANGED <<token, fresh, cover, tokenLock, coverLock, doing, purpose, attempt, using,
                   drafts, result, sends>>

\* tokenUntil passes.
TokenAges ==
    /\ fresh /\ fresh' = FALSE
    /\ UNCHANGED <<valid, token, cover, tokenLock, coverLock, doing, purpose, attempt, using,
                   drafts, result, sends>>

ClientNext ==
    \/ Rotate \/ TokenAges
    \/ \E s \in Sender :
        \/ BeginSend(s) \/ EnterCover(s) \/ TakeToken(s) \/ Invalidate(s)
        \/ \E reply \in Reply : TokenAnswers(s, reply) \/ PostAnswers(s, reply)

ClientSpec == ClientInit /\ [][ClientNext]_clientVars

-----------------------------------------------------------------------------
(* Properties. *)

\* A Send leaves one draft at most, although it may post twice and tokens are
\* replaced under it; what it reports as delivered is there, and what it reports as
\* permanently refused, which the ledgers never send again and show to an
\* operator, is not (Client.Send, addDraft, and MarkPermanent of the ledger).
DraftIsKnown ==
    \A s \in Sender :
        /\ drafts[s] <= 1
        /\ result[s] = "delivered" => drafts[s] = 1
        /\ result[s] = "permanent" => drafts[s] = 0
=============================================================================
