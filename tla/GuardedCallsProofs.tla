-------------------------- MODULE GuardedCallsProofs --------------------------
(***************************************************************************)
(* Proofs about GuardedCalls, for any number of attempts and calls:        *)
(* nothing is stored of an answer that misses its schema (NothingDegraded) *)
(* and no text is cut before it was refused whole (CutOnlyIfRefused).      *)
(***************************************************************************)
EXTENDS GuardedCalls, TLAPS

(* The embedding variants are tried in order: those before the current one    *)
(* were refused.                                                              *)
TriedInOrder ==
    /\ form \in Nat \ {0}
    /\ \A i \in 1 .. form - 1 : i \in refused

InOrder == TriedInOrder /\ CutOnlyIfRefused

-----------------------------------------------------------------------------
LEMMA InitDegraded == Init => NothingDegraded
BY DEF Init, NothingDegraded

LEMMA KeepDegraded ==
    ASSUME NothingDegraded, NEW answer, Keep(answer),
           job.client = "a_mem" /\ job.wrapped =>
               answer = "valid" \/ (answer = "wrong" /\ ~job.schema),
           job.client = "graphiti" /\ job.schema => answer = "valid"
    PROVE  NothingDegraded'
<1> DEFINE new == [job |-> job, answer |-> answer, form |-> form, refused |-> refused]
<1>1. stored' = stored \cup {new} BY DEF Keep
<1>2. new.job = job /\ new.answer = answer OBVIOUS
<1> QED BY <1>1, <1>2 DEF NothingDegraded

LEMMA NextDegraded == NothingDegraded /\ [Next]_vars => NothingDegraded'
<1> SUFFICES ASSUME NothingDegraded, [Next]_vars PROVE NothingDegraded'
  OBVIOUS
<1>1. CASE UNCHANGED stored BY <1>1 DEF NothingDegraded
<1>2. ASSUME NEW j \in Jobs, Call(j) PROVE NothingDegraded' BY <1>1, <1>2 DEF Call
<1>3. ASSUME NEW answer \in Answers, AMemAnswer(answer) PROVE NothingDegraded'
  <2>1. CASE require_json_object_response(answer) /\ Keep(answer)
    BY <1>3, <2>1, KeepDegraded DEF AMemAnswer, require_json_object_response, ResponseSchema
  <2>2. CASE Again \/ FatalLLMError BY <1>1, <2>2 DEF Again, FatalLLMError
  <2> QED BY <1>3, <2>1, <2>2 DEF AMemAnswer
<1>4. ASSUME NEW answer \in Answers, UnwrappedAnswer(answer) PROVE NothingDegraded'
  <2>1. job.client = "a_mem" /\ ~job.wrapped BY <1>4 DEF UnwrappedAnswer
  <2>2. Keep(answer) \/ Keep("nothing") BY <1>4 DEF UnwrappedAnswer, OfficialCatches
  <2> QED BY <2>1, <2>2, KeepDegraded
<1>5. ASSUME NEW raw \in Answers, GraphitiAnswer(raw) PROVE NothingDegraded'
  <2>1. CASE model_validate(Parsed(raw)) /\ Keep(Parsed(raw))
    BY <1>5, <2>1, KeepDegraded DEF GraphitiAnswer, model_validate
  <2>2. CASE UNCHANGED stored BY <1>1, <2>2
  <2>3. CASE EpisodeFails(Parsed(raw)) BY <2>2, <2>3 DEF EpisodeFails, Again, Raise
  <2> QED BY <1>5, <2>1, <2>2, <2>3 DEF GraphitiAnswer
<1>6. ASSUME NEW answer \in Answers, Mem0Answer(answer) PROVE NothingDegraded'
  <2>1. CASE Keep(answer)
    BY <1>6, <2>1, KeepDegraded DEF Mem0Answer
  <2>2. CASE UNCHANGED stored BY <1>1, <2>2
  <2> QED BY <1>6, <2>1, <2>2 DEF Mem0Answer, Again, Raise
<1>7. CASE UNCHANGED vars BY <1>1, <1>7 DEF vars
<1> QED BY <1>2, <1>3, <1>4, <1>5, <1>6, <1>7 DEF Next, Answer

(* Whatever the provider answers, a wrapped A-MEM note and a structured       *)
(* Graphiti extraction satisfy the schema that was asked for                  *)
(* (_configure_openai_controller_runtime, _generate_response).                *)
THEOREM SpecNothingDegraded == Spec => []NothingDegraded
BY InitDegraded, NextDegraded, PTL DEF Spec

-----------------------------------------------------------------------------
LEMMA InitForms == Init => InOrder
BY DEF Init, InOrder, TriedInOrder, CutOnlyIfRefused

LEMMA KeepForms == ASSUME InOrder, NEW answer, Keep(answer) PROVE InOrder'
<1> DEFINE new == [job |-> job, answer |-> answer, form |-> form, refused |-> refused]
<1>1. stored' = stored \cup {new} /\ form' = form /\ refused' = refused BY DEF Keep
<1>2. new.form = form /\ new.refused = refused OBVIOUS
<1>3. form > 2 => 1 \in refused /\ 2 \in refused BY DEF InOrder, TriedInOrder
<1>4. TriedInOrder' BY <1>1 DEF InOrder, TriedInOrder
<1>5. CutOnlyIfRefused' BY <1>1, <1>2, <1>3 DEF InOrder, CutOnlyIfRefused
<1> QED BY <1>4, <1>5 DEF InOrder

LEMMA NextForms == InOrder /\ [Next]_vars => InOrder'
<1> SUFFICES ASSUME InOrder, [Next]_vars PROVE InOrder'
  OBVIOUS
<1>1. CASE UNCHANGED <<form, refused, stored>>
  BY <1>1 DEF InOrder, TriedInOrder, CutOnlyIfRefused
<1>2. ASSUME NEW j \in Jobs, Call(j) PROVE InOrder'
  BY <1>2 DEF Call, InOrder, TriedInOrder, CutOnlyIfRefused
<1>3. ASSUME NEW answer \in Answers, AMemAnswer(answer) PROVE InOrder'
  <2>1. CASE Keep(answer) BY <2>1, KeepForms
  <2>2. CASE Again \/ FatalLLMError BY <1>1, <2>2 DEF Again, FatalLLMError
  <2> QED BY <1>3, <2>1, <2>2 DEF AMemAnswer
<1>4. ASSUME NEW answer \in Answers, UnwrappedAnswer(answer) PROVE InOrder'
  BY <1>4, KeepForms DEF UnwrappedAnswer, OfficialCatches
<1>5. ASSUME NEW raw \in Answers, GraphitiAnswer(raw) PROVE InOrder'
  <2>1. CASE Keep(Parsed(raw)) BY <2>1, KeepForms
  <2>2. CASE UNCHANGED <<form, refused, stored>> BY <1>1, <2>2
  <2>3. CASE EpisodeFails(Parsed(raw)) BY <2>2, <2>3 DEF EpisodeFails, Again, Raise
  <2> QED BY <1>5, <2>1, <2>2, <2>3 DEF GraphitiAnswer
<1>6. ASSUME NEW answer \in Answers, Mem0Answer(answer) PROVE InOrder'
  <2>1. CASE Keep(answer) BY <2>1, KeepForms
  <2>2. CASE Again \/ Raise BY <1>1, <2>2 DEF Again, Raise
  <2>3. CASE /\ is_invalid_parameter(answer) /\ form' = form + 1
             /\ refused' = IF answer = "refused" THEN refused \cup {form} ELSE refused
             /\ UNCHANGED stored
    <3>1. refused' = refused \cup {form} BY <2>3 DEF is_invalid_parameter
    <3>2. form \in Nat \ {0} /\ \A i \in 1 .. form - 1 : i \in refused
      BY DEF InOrder, TriedInOrder
    <3>3. TriedInOrder' BY <2>3, <3>1, <3>2 DEF TriedInOrder
    <3>4. CutOnlyIfRefused' BY <2>3 DEF InOrder, CutOnlyIfRefused
    <3> QED BY <3>3, <3>4 DEF InOrder
  <2> QED BY <1>6, <2>1, <2>2, <2>3 DEF Mem0Answer
<1>7. CASE UNCHANGED vars BY <1>1, <1>7 DEF vars
<1> QED BY <1>2, <1>3, <1>4, <1>5, <1>6, <1>7 DEF Next, Answer

(* Only a provider that refuses a text whole, in both forms, gets it cut      *)
(* (_create_embedding_with_compatible_fallbacks).                             *)
THEOREM SpecCutOnlyIfRefused == Spec => []CutOnlyIfRefused
<1>1. InOrder => CutOnlyIfRefused BY DEF InOrder
<1> QED BY InitForms, NextForms, <1>1, PTL DEF Spec
=============================================================================
