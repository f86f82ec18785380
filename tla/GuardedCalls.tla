----------------------------- MODULE GuardedCalls -----------------------------
(***************************************************************************)
(* The model calls that three adapters guard for their official SDKs:      *)
(*  - A-MEM: completions of a note's metadata.  The official code swallows *)
(*    every Exception and stores the note with empty metadata;             *)
(*  - Graphiti, with structured_response_format json_object: completions   *)
(*    that extract an episode;                                             *)
(*  - Mem0: embeddings of a text, over an API that may refuse an input.    *)
(* One call at a time; the provider answers each request as it likes.      *)
(*                                                                         *)
(* An answer is a class: valid JSON ("valid"), valid JSON in a fence or    *)
(* prose ("fenced"), JSON that lacks fields of the schema ("wrong"), text  *)
(* that is no JSON ("garbled"), nothing ("empty"), a transient error       *)
(* ("busy"), the refusal of a parameter ("refused"), or another error      *)
(* ("failed").  A vector is a valid answer.                                *)
(***************************************************************************)
EXTENDS Integers, Sequences, FiniteSets

CONSTANTS
    Attempts,   \* llm_transient_max_attempts, AMB_*_TRANSIENT_MAX_ATTEMPTS; 1: no retry
    MaxCalls    \* bound: calls of the process

ASSUME GuardedAssumption == Attempts \in Nat \ {0} /\ MaxCalls \in Nat

VARIABLES
    pc,        \* "idle", "asking" or "aborted": a BaseException left the process
    job,       \* the call: client and what matters of its configuration
    attempt,   \* of the retry loop
    form,      \* index into Forms(job): the input variant of an embedding
    corrected, \* the structured call already asked for a correction
    refused,   \* forms of this call the provider refused
    stored,    \* what the SDKs stored, of all calls
    calls      \* calls so far

vars == <<pc, job, attempt, form, corrected, refused, stored, calls>>

Answers == {"valid", "fenced", "wrong", "garbled", "empty", "busy", "refused", "failed"}

NoJob == [client |-> "none"]

(* wrapped: the backend is "openai", the only one whose controller is wrapped; *)
(* schema: the request declares one; downgrade: the model knows only           *)
(* json_object; long: the text exceeds AMB_MEM0_EMBEDDING_MAX_CHARS.           *)
Jobs == [client : {"a_mem"}, wrapped : BOOLEAN, schema : BOOLEAN, downgrade : BOOLEAN]
            \cup [client : {"graphiti"}, schema : BOOLEAN]
            \cup [client : {"mem0"}, long : BOOLEAN]

Init ==
    /\ pc = "idle" /\ job = NoJob /\ attempt = 1 /\ form = 1 /\ corrected = FALSE
    /\ refused = {} /\ stored = {} /\ calls = 0

Call(j) ==
    /\ pc = "idle" /\ calls < MaxCalls
    /\ pc' = "asking" /\ job' = j /\ attempt' = 1 /\ form' = 1 /\ corrected' = FALSE
    /\ refused' = {} /\ calls' = calls + 1
    /\ UNCHANGED stored

-----------------------------------------------------------------------------
\* What the SDK keeps of the answer it was given; "nothing": it made up empty metadata.
Keep(answer) ==
    /\ stored' = stored \cup {[job |-> job, answer |-> answer, form |-> form, refused |-> refused]}
    /\ pc' = "idle"
    /\ UNCHANGED <<job, attempt, form, corrected, refused, calls>>

\* mutant: a transient error counts no attempt
AgainForEver == UNCHANGED <<pc, job, attempt, form, refused, stored, calls>>

Again ==
    /\ attempt' = attempt + 1
    /\ UNCHANGED <<pc, job, form, refused, stored, calls>>

\* An Exception that leaves the adapter fails the call of the benchmark.
Raise ==
    /\ pc' = "idle"
    /\ UNCHANGED <<job, attempt, form, corrected, refused, stored, calls>>

-----------------------------------------------------------------------------
(* A-MEM                                                                      *)

(* The official code catches an Exception and stores the note without its     *)
(* metadata; a BaseException passes it.                                       *)
OfficialCatches == Keep("nothing")

\* mutant: the guard raises an Exception, as every other adapter does
FatalAsException == OfficialCatches

FatalLLMError ==
    /\ pc' = "aborted"
    /\ UNCHANGED <<job, attempt, form, corrected, refused, stored, calls>>

\* The schema is read before the downgrade to json_object removes it.
ResponseSchema == job.schema

require_json_object_response(answer) ==
    answer = "valid" \/ (answer = "wrong" /\ ~ResponseSchema)

is_transient_llm_error(answer) == answer \in {"busy", "empty"}

AMemAnswer(answer) ==
    /\ pc = "asking" /\ job.client = "a_mem" /\ job.wrapped
    /\ \/ require_json_object_response(answer) /\ Keep(answer)
       \/ /\ ~require_json_object_response(answer)
          /\ \/ /\ attempt < Attempts
                /\ is_transient_llm_error(answer) \/ answer \in {"wrong", "fenced", "garbled"}
                /\ Again /\ UNCHANGED corrected
             \/ /\ attempt >= Attempts \/ answer \in {"refused", "failed"}
                /\ FatalLLMError

(* The controllers of the other backends are left as they are: the official   *)
(* code parses what it gets.                                                  *)
UnwrappedAnswer(answer) ==
    /\ pc = "asking" /\ job.client = "a_mem" /\ ~job.wrapped
    /\ IF answer \in {"valid", "wrong"} THEN Keep(answer) ELSE OfficialCatches

-----------------------------------------------------------------------------
(* Graphiti                                                                   *)

\* An empty answer is read as {}.
Parsed(answer) == CASE answer = "empty" -> "wrong" [] answer = "fenced" -> "valid" [] OTHER -> answer

is_transient_exception(answer, mentions) == answer = "busy" \/ mentions

(* The whole episode is asked again after an error that looks transient: what *)
(* an error says of the answer it quotes may look so as well.                 *)
EpisodeFails(answer) ==
    \E mentions \in BOOLEAN :
        IF attempt < Attempts /\ is_transient_exception(answer, mentions)
        THEN Again /\ corrected' = FALSE
        ELSE Raise

model_validate(answer) == ~job.schema \/ answer = "valid"

GraphitiAnswer(raw) ==
    LET answer == Parsed(raw)
    IN /\ pc = "asking" /\ job.client = "graphiti"
       /\ \/ answer \in {"valid", "wrong"} /\ model_validate(answer) /\ Keep(answer)
          \/ /\ answer \in {"valid", "wrong"} /\ ~model_validate(answer) /\ ~corrected
             /\ corrected' = TRUE
             /\ UNCHANGED <<pc, job, attempt, form, refused, stored, calls>>
          \/ /\ answer \in {"valid", "wrong"} /\ ~model_validate(answer) /\ corrected
             /\ EpisodeFails(answer)
          \/ answer \notin {"valid", "wrong"} /\ EpisodeFails(answer)

-----------------------------------------------------------------------------
(* Mem0                                                                       *)

(* As a list and as a string, then both of the truncated text if it is        *)
(* shorter.                                                                   *)
Forms == <<"list", "text">> \o (IF job.long THEN <<"cut list", "cut text">> ELSE <<>>)

is_transient_provider_error(answer) == answer = "busy"

\* mutant: every error that is not transient tries the next variant
is_invalid_parameter_any(answer) == answer \notin {"valid"}

is_invalid_parameter(answer) == answer = "refused"

\* An embedding has no schema: every class of text is a vector here.
Mem0Answer(answer) ==
    LET retry == is_transient_provider_error(answer) /\ attempt < Attempts
    IN
    /\ pc = "asking" /\ job.client = "mem0" /\ answer \in {"valid", "busy", "refused", "failed"}
    /\ \/ answer = "valid" /\ Keep(answer)
       \/ retry /\ Again /\ UNCHANGED corrected
       \/ /\ ~retry /\ is_invalid_parameter(answer) /\ form < Len(Forms)
          /\ form' = form + 1 /\ attempt' = 1
          /\ refused' = IF answer = "refused" THEN refused \cup {form} ELSE refused
          /\ UNCHANGED <<pc, job, corrected, stored, calls>>
       \/ /\ answer # "valid" /\ ~retry
          /\ ~is_invalid_parameter(answer) \/ form >= Len(Forms)
          /\ Raise

-----------------------------------------------------------------------------
Answer(answer) ==
    \/ AMemAnswer(answer)
    \/ UnwrappedAnswer(answer)
    \/ GraphitiAnswer(answer)
    \/ Mem0Answer(answer)

Next == (\E j \in Jobs : Call(j)) \/ (\E answer \in Answers : Answer(answer))

\* A request is answered or times out.
Fairness == WF_vars(\E answer \in Answers : Answer(answer))

Spec == Init /\ [][Next]_vars
FairSpec == Spec /\ Fairness

-----------------------------------------------------------------------------
(* Nothing is stored of an answer that misses the schema the SDK declared,    *)
(* whatever came before, retries, corrections and downgraded requests         *)
(* included: no note of a wrapped A-MEM has made-up metadata                  *)
(* (_configure_openai_controller_runtime, "preventing partial degraded        *)
(* memories"), and no episode is extracted from what did not validate         *)
(* (_json_object_structured_generic_client_cls).                              *)
NothingDegraded ==
    \A s \in stored :
        /\ s.job.client = "a_mem" /\ s.job.wrapped =>
               s.answer = "valid" \/ (s.answer = "wrong" /\ ~s.job.schema)
        /\ s.job.client = "graphiti" /\ s.job.schema => s.answer = "valid"

(* A text is embedded in part only after the provider refused it whole, as a  *)
(* list and as a string: an outage is never a reason to truncate              *)
(* (_create_embedding_with_compatible_fallbacks).                             *)
CutOnlyIfRefused ==
    \A s \in stored : s.job.client = "mem0" /\ s.form > 2 => {1, 2} \subseteq s.refused

(* A call ends, however the provider answers: the attempts of its loops are   *)
(* counted (_call_with_transient_retry of the three adapters).                *)
CallEnds == pc = "asking" ~> pc # "asking"
=============================================================================
