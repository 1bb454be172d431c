------------------------------ MODULE LlmChat ------------------------------
(***************************************************************************)
(* One question to an LLM (agent/llm.py): which provider is asked, what    *)
(* counts as a failure worth another attempt, and what is made of a reply. *)
(***************************************************************************)
EXTENDS Naturals, Sequences

CONSTANTS
  Setups,   \* environments: the usable providers, and the one asked for
  Attempts  \* max_retries of chat(), which makes at least one attempt

Listed == <<"anthropic", "openrouter", "z-ai">>
Providers == {"anthropic", "openrouter", "z-ai"}

ASSUME ChatAssumption ==
  /\ Setups \subseteq [usable : SUBSET Providers,
                       pinned : Providers \cup {"", "unknown"}]
  /\ Attempts \in Nat

\* What the service may do: a reply that conforms, one that also quotes ```;
\* an object off the schema; prose; no text; an HTTP status that is final, or
\* in RETRYABLE_HTTP; no response, or none that can be read; an exception.
Replies == {"answer", "quoting", "off_schema", "prose", "blank",
            "refused", "busy", "garbled", "raised"}

VARIABLE
  chat  \* [stage, provider, replies, result]

NoChat == [stage |-> "idle", provider |-> "none", replies |-> <<>>,
           result |-> "none"]

Over(result, replies) ==
  chat' = [chat EXCEPT !.stage = "over", !.result = result, !.replies = replies]

\* _resolve_provider: the pinned one or nobody, else the first that is usable.
Resolved(setup) ==
  IF setup.pinned # "" THEN {setup.pinned} \cap setup.usable
  ELSE {Listed[i] : i \in {i \in DOMAIN Listed :
                             /\ Listed[i] \in setup.usable
                             /\ \A j \in 1..(i - 1) : Listed[j] \notin setup.usable}}

Resolve ==
  /\ chat.stage = "resolve"
  /\ \E setup \in Setups :
       \/ /\ Resolved(setup) = {}
          /\ Over("error", <<>>)
       \/ \E p \in Resolved(setup) :
            chat' = [chat EXCEPT !.stage = "ask", !.provider = p]

BugReadingOfEveryStatus(p, r) ==
  CASE r \in {"busy", "refused", "garbled", "raised"} -> "transient"
    [] r \in {"prose", "blank"} -> IF p = "anthropic" THEN "transient" ELSE r
    [] OTHER -> "text"

\* What a backend makes of it: anthropic finds no tool_use block in prose, and
\* the z-ai program only has its exit code to say why it failed.
Reading(p, r) ==
  CASE r = "refused" -> IF p = "z-ai" THEN "transient" ELSE "fatal"
    [] r \in {"busy", "garbled", "raised"} -> "transient"
    [] r \in {"prose", "blank"} -> IF p = "anthropic" THEN "transient" ELSE r
    [] OTHER -> "text"

\* chat_json takes out what looks like a fence around the object, also where
\* the object quotes one: what is left may still conform, or not parse.
Results(r) == CASE r = "answer"  -> {"answer"}
                [] r = "quoting" -> {"answer", "error"}
                [] OTHER         -> {"error"}

Limit == IF Attempts = 0 THEN 1 ELSE Attempts

Exhausted(replies) == Len(replies) = Limit

Reply(r) ==
  /\ chat.stage = "ask"
  /\ LET replies == Append(chat.replies, r)
         reading == Reading(chat.provider, r)
     IN  \/ /\ reading \in {"text", "prose"}
            /\ \E result \in Results(r) : Over(result, replies)
         \/ /\ reading = "fatal"
            /\ Over("error", replies)
         \/ /\ reading \in {"transient", "blank"}
            /\ Exhausted(replies)
            /\ Over("error", replies)
         \/ /\ reading \in {"transient", "blank"}
            /\ ~Exhausted(replies)
            /\ chat' = [chat EXCEPT !.stage = "backoff", !.replies = replies]

BugBackoffUncounted ==
  /\ chat.stage = "backoff"
  /\ chat' = [chat EXCEPT !.stage = "ask", !.replies = Tail(@)]

Backoff ==
  /\ chat.stage = "backoff"
  /\ chat' = [chat EXCEPT !.stage = "ask"]

ChatNext == Resolve \/ (\E r \in Replies : Reply(r)) \/ Backoff

----------------------------------------------------------------------------
ChatTypeOK ==
  chat \in [stage : {"idle", "resolve", "ask", "backoff", "over"},
            provider : Providers \cup {"none"},
            replies : Seq(Replies), result : {"none", "answer", "error"}]

\* No retry can change what comes of such a reply.
Settles(r) == \/ r \in {"answer", "quoting", "off_schema"}
              \/ r = "prose" /\ chat.provider # "anthropic"
              \/ r = "refused" /\ chat.provider # "z-ai"

\* No attempt is made over the limit or after a reply that settles the
\* question, a status that no retry can change among them (_Fatal: "a request
\* that is guaranteed to fail the same way"); and a question fails before the
\* attempts are used up only on such a reply.
RetriesFitTheReplies ==
  LET n == Len(chat.replies)
  IN  /\ n <= Limit
      /\ \A i \in 1..(n - 1) : ~Settles(chat.replies[i])
      /\ chat.result = "answer" => chat.replies[n] \in {"answer", "quoting"}
      /\ chat.result = "error" /\ 0 < n /\ n < Attempts => Settles(chat.replies[n])
============================================================================
