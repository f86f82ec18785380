-------------------------- MODULE SemanticUseProofs --------------------------
(***************************************************************************)
(* Proofs about SemanticUse, for any memories and any response: the batch  *)
(* form decides as the rule does (BatchAgrees), a response made of allowed *)
(* memories is no leak (GoldIsNoLeak), a use is a leak (UseIsLeak).        *)
(***************************************************************************)
EXTENDS SemanticUse, FiniteSetTheorems, TLAPS

(* The batch form does not look for blank memories when it compares tokens:   *)
(* they have none.                                                            *)
BlankHasNothing == \A s \in signatures : s.norm \in Blank => s.unique = {}

(* Without a matched token no rule applies.                                   *)
LEMMA NothingMatched == ASSUME NEW unique PROVE ~UniqueRevealed({}, unique)
<1>1. Cardinality({}) = 0 BY FS_EmptySet
<1>2. ~(Cardinality({}) >= 4) BY <1>1
<1> QED BY <1>2 DEF UniqueRevealed, has_value_token

LEMMA BlankSignature ==
    ASSUME NEW c \in Contents, NEW allowed \in SUBSET Contents, c \in Blank
    PROVE  prepare_signature(c, allowed).unique = {}
BY SemanticUseAssumption DEF prepare_signature

LEMMA InitBlank == Init => BlankHasNothing
BY DEF Init, BlankHasNothing

LEMMA NextBlank == BlankHasNothing /\ [Next]_vars => BlankHasNothing'
<1> SUFFICES ASSUME BlankHasNothing, [Next]_vars PROVE BlankHasNothing'
  OBVIOUS
<1>1. ASSUME NEW c \in Contents, NEW allowed \in SUBSET Contents, Prepare(c, allowed)
      PROVE  BlankHasNothing'
  <2>1. prepare_signature(c, allowed).norm = c BY DEF prepare_signature
  <2>2. c \in Blank => prepare_signature(c, allowed).unique = {} BY BlankSignature
  <2>3. signatures' = signatures \cup {prepare_signature(c, allowed)} BY <1>1 DEF Prepare
  <2> QED BY <2>1, <2>2, <2>3 DEF BlankHasNothing
<1>2. CASE UNCHANGED signatures
  BY <1>2 DEF BlankHasNothing
<1>3. CASE \E t \in Tokens : Say(t) BY <1>2, <1>3 DEF Say
<1>4. CASE \E c \in Contents : Quote(c) BY <1>2, <1>4 DEF Quote
<1>5. CASE SayCue BY <1>2, <1>5 DEF SayCue
<1>6. CASE UNCHANGED vars BY <1>2, <1>6 DEF vars
<1> QED BY <1>1, <1>3, <1>4, <1>5, <1>6 DEF Next

-----------------------------------------------------------------------------
LEMMA BatchByBlank == BlankHasNothing => BatchAgrees
<1> SUFFICES ASSUME BlankHasNothing PROVE BatchAgrees
  OBVIOUS
<1>1. ASSUME NEW s \in signatures, ~silent
      PROVE  (\/ s.norm \notin Blank /\ Contains(s.norm)
              \/ /\ s.unique # {} /\ s.unique \cap said # {}
                 /\ UniqueRevealed(s.unique \cap said, s.unique))
             <=> forbidden_signature_revealed(s)
  <2>1. CASE s.unique \cap said = {}
    <3>1. ~UniqueRevealed(s.unique \cap said, s.unique) BY <2>1, NothingMatched
    <3> QED BY <1>1, <2>1, <3>1 DEF forbidden_signature_revealed
  <2>2. CASE s.unique \cap said # {}
    <3>1. s.unique # {} BY <2>2
    <3>2. s.norm \notin Blank BY <3>1 DEF BlankHasNothing
    <3> QED BY <1>1, <2>2, <3>1, <3>2 DEF forbidden_signature_revealed
  <2> QED BY <2>1, <2>2
<1>2. ASSUME silent, NEW s \in signatures PROVE ~forbidden_signature_revealed(s)
  BY <1>2 DEF forbidden_signature_revealed
<1> QED BY <1>1, <1>2 DEF BatchAgrees, any_forbidden_signature_revealed

(* The batch form of the audit decides as the rule for one signature does,    *)
(* whatever signatures were prepared                                          *)
(* (any_forbidden_signature_revealed, forbidden_signature_revealed).          *)
THEOREM SpecBatchAgrees == Spec => []BatchAgrees
BY InitBlank, NextBlank, BatchByBlank, PTL DEF Spec

LEMMA Gold == GoldIsNoLeak
<1> SUFFICES ASSUME NEW c \in Contents, NEW allowed \in SUBSET Contents,
                    said \cap TokensOf[c] \subseteq UNION {TokensOf[a] : a \in allowed},
                    c \notin quoted
             PROVE  ~forbidden_signature_revealed(prepare_signature(c, allowed))
  BY DEF GoldIsNoLeak
<1> DEFINE s == prepare_signature(c, allowed)
<1>1. s.norm = c /\ s.unique = TokensOf[c] \ UNION {TokensOf[a] : a \in allowed}
  BY DEF prepare_signature
<1>2. s.unique \cap said = {} BY <1>1
<1>3. ~UniqueRevealed(s.unique \cap said, s.unique) BY <1>2, NothingMatched
<1> QED BY <1>1, <1>3 DEF forbidden_signature_revealed, Contains

(* Whatever a response puts together from allowed memories is no leak of a    *)
(* decoy it does not repeat verbatim (forbidden_memory_revealed).             *)
THEOREM SpecGoldIsNoLeak == Spec => []GoldIsNoLeak
BY Gold, PTL

LEMMA Use == UseIsLeak
<1> SUFFICES ASSUME NEW c \in Contents, required_memory_used(c)
             PROVE  forbidden_signature_revealed(prepare_signature(c, {}))
  BY DEF UseIsLeak
<1> DEFINE s == prepare_signature(c, {})
           matched == TokensOf[c] \cap said
<1>1. s.norm = c /\ s.unique = TokensOf[c] BY DEF prepare_signature
<1>2. ~silent /\ c \notin Blank BY DEF required_memory_used, semantic_content_revealed
<1>3. Contains(c) \/ (reveals /\ matched # {}) \/ has_value_token(matched)
  BY DEF required_memory_used, semantic_content_revealed
<1> QED BY <1>1, <1>2, <1>3 DEF forbidden_signature_revealed, UniqueRevealed

(* The rule for a required memory is never satisfied by a response that the   *)
(* rule for a forbidden one lets through (required_memory_used).              *)
THEOREM SpecUseIsLeak == Spec => []UseIsLeak
BY Use, PTL
=============================================================================
