----------------------------- MODULE SemanticUse -----------------------------
(***************************************************************************)
(* The audit overlay of amb/lib/semantic_use.py: signatures of forbidden   *)
(* memories are prepared once, a response is audited against all of them,  *)
(* by the rule for one signature or by the batch form of that rule.        *)
(*                                                                         *)
(* A text is what the rules read of it: its salient tokens, the memories   *)
(* it contains verbatim, whether it says "reveals that", whether it says   *)
(* it does not use a memory, and whether it is blank.  A response grows    *)
(* piece by piece, so that all of its texts are audited.                   *)
(***************************************************************************)
EXTENDS Integers, FiniteSets

CONSTANTS
    Tokens,         \* salient tokens (_salient_tokens: no stopwords)
    ValueTokens,    \* tokens with a digit or one of @_:/+-
    Contents,       \* contents of memories
    TokensOf,       \* salient tokens of a content
    Blank,          \* contents that normalize to the empty string
    Within,         \* contents a content contains verbatim, itself included
    MaxSignatures   \* bound: signatures prepared

ASSUME SemanticUseAssumption ==
    /\ ValueTokens \subseteq Tokens /\ IsFiniteSet(Tokens)
    /\ TokensOf \in [Contents -> SUBSET Tokens]
    /\ Blank \subseteq Contents /\ \A b \in Blank : TokensOf[b] = {}
    /\ Within \in [Contents -> SUBSET Contents]
    /\ MaxSignatures \in Nat

VARIABLES
    said,        \* salient tokens of the response
    quoted,      \* contents the response contains verbatim
    reveals,     \* it says "reveals that" or "reveals:"
    negated,     \* it says that a memory is not used
    silent,      \* it normalizes to the empty string
    signatures   \* prepared ForbiddenMemorySignatures

response == <<said, quoted, reveals, negated, silent>>
vars == <<response, signatures>>

Init ==
    /\ said = {} /\ quoted = {} /\ reveals = FALSE /\ negated = FALSE /\ silent = TRUE
    /\ signatures = {}

-----------------------------------------------------------------------------
(* The substring test: the empty string is in every text.                     *)
Contains(content) == content \in Blank \cup quoted

has_value_token(matched) == matched \cap ValueTokens # {}

\* overlap >= percent / 100
Overlap(matched, tokens, percent) == 100 * Cardinality(matched) >= percent * Cardinality(tokens)

semantic_content_revealed(content) ==
    LET matched == TokensOf[content] \cap said
    IN /\ ~silent /\ content \notin Blank
       /\ \/ Contains(content)
          \/ reveals /\ matched # {}
          \/ /\ has_value_token(matched) /\ Cardinality(matched) >= 3
             /\ Overlap(matched, TokensOf[content], 30)
          \/ /\ has_value_token(matched) /\ Cardinality(TokensOf[content]) <= 4
             /\ Overlap(matched, TokensOf[content], 75)

required_memory_used(content) == semantic_content_revealed(content) /\ ~negated

\* mutant: the tokens of the allowed memories still count
prepareAll(content, allowed) == [norm |-> content, unique |-> TokensOf[content]]

prepare_signature(content, allowed) ==
    [norm |-> content, unique |-> TokensOf[content] \ UNION {TokensOf[a] : a \in allowed}]

\* The three ways in which unique tokens give a forbidden memory away.
UniqueRevealed(matched, unique) ==
    \/ reveals /\ matched # {}
    \/ has_value_token(matched)
    \/ Overlap(matched, unique, 60) /\ Cardinality(matched) >= 4

\* mutant: the threshold of a required memory
forbidden_signature_strict(signature) ==
    /\ ~silent /\ signature.norm \notin Blank
    /\ \/ Contains(signature.norm)
       \/ /\ Cardinality(signature.unique \cap said) >= 3
          /\ UniqueRevealed(signature.unique \cap said, signature.unique)

forbidden_signature_revealed(signature) ==
    /\ ~silent /\ signature.norm \notin Blank
    /\ \/ Contains(signature.norm)
       \/ UniqueRevealed(signature.unique \cap said, signature.unique)

\* mutant: the empty string of a blank memory is found in every response
any_forbidden_blank(prepared) ==
    /\ ~silent
    /\ \E s \in prepared : \/ Contains(s.norm)
                           \/ UniqueRevealed(s.unique \cap said, s.unique)

(* The batch form tests the response once, and per signature looks for the     *)
(* text first and stops early when nothing unique is left or matched.         *)
any_forbidden_signature_revealed(prepared) ==
    /\ ~silent
    /\ \E s \in prepared :
          \/ s.norm \notin Blank /\ Contains(s.norm)
          \/ /\ s.unique # {} /\ s.unique \cap said # {}
             /\ UniqueRevealed(s.unique \cap said, s.unique)

-----------------------------------------------------------------------------
\* A token may also be said that is part of no memory.
Say(token) ==
    /\ said' = said \cup {token} /\ silent' = FALSE
    /\ UNCHANGED <<quoted, reveals, negated, signatures>>

(* A content contained in the middle of a word brings no token of its own.    *)
Quote(content) ==
    /\ content \notin Blank
    /\ quoted' = quoted \cup (Within[content] \ Blank) /\ silent' = FALSE
    /\ \E tokens \in {{}, TokensOf[content]} : said' = said \cup tokens
    /\ UNCHANGED <<reveals, negated, signatures>>

SayCue ==
    /\ \/ reveals' = TRUE /\ UNCHANGED negated
       \/ negated' = TRUE /\ UNCHANGED reveals
    /\ silent' = FALSE
    /\ UNCHANGED <<said, quoted, signatures>>

(* An audit prepares its signatures before it reads the response.             *)
Prepare(content, allowed) ==
    /\ silent /\ Cardinality(signatures) < MaxSignatures
    /\ signatures' = signatures \cup {prepare_signature(content, allowed)}
    /\ UNCHANGED response

Next ==
    \/ \E t \in Tokens : Say(t)
    \/ \E c \in Contents : Quote(c)
    \/ SayCue
    \/ \E c \in Contents, allowed \in SUBSET Contents : Prepare(c, allowed)

Spec == Init /\ [][Next]_vars

-----------------------------------------------------------------------------
(* The batch form decides as the rule for one signature does, for blank       *)
(* memories and memories without a unique token as well                       *)
(* (any_forbidden_signature_revealed, "preserving the same decision rule").   *)
BatchAgrees ==
    any_forbidden_signature_revealed(signatures)
        <=> \E s \in signatures : forbidden_signature_revealed(s)

(* A response that says only what the allowed memories say, whatever decoy it *)
(* is audited against, is no leak unless it repeats the decoy verbatim: no    *)
(* sum of other pieces, of cues or of values makes it one                     *)
(* (forbidden_memory_revealed).                                               *)
GoldIsNoLeak ==
    \A c \in Contents, allowed \in SUBSET Contents :
        /\ said \cap TokensOf[c] \subseteq UNION {TokensOf[a] : a \in allowed}
        /\ c \notin quoted
        => ~forbidden_signature_revealed(prepare_signature(c, allowed))

(* What counts as the use of a required memory counts as its leak when it is  *)
(* forbidden and nothing is allowed: the two rules have different thresholds, *)
(* and the stricter one may not let through what the other accepts            *)
(* (semantic_content_revealed, forbidden_memory_revealed).                    *)
UseIsLeak ==
    \A c \in Contents :
        required_memory_used(c) => forbidden_signature_revealed(prepare_signature(c, {}))
=============================================================================
