------------------------------ MODULE NameMatch ------------------------------
(* Does a passage name this organization (core/client/verify.py)? Names    *)
(* and passages are sequences of tokens; a token is a word, how it is      *)
(* written and whether a Korean particle is glued to it. Comparison folds  *)
(* the case away.                                                          *)
EXTENDS Integers, Sequences

(* "Capital" and "lower" are cased; an "uncased" script marks neither case *)
(* nor word breaks; a "particle" stands alone.                             *)
Token(word, written, glued) ==
    [word |-> word, written |-> written, glued |-> glued]

LEGAL_SUFFIXES == {"ltd", "corporation", "holdings", "group"}

(* A name as the provider reports it: its words, punctuation gone. *)
strip_legal_suffix(name) ==
    IF Len(name) > 1 /\ name[Len(name)] \in LEGAL_SUFFIXES
    THEN SubSeq(name, 1, Len(name) - 1) ELSE name

_continues_a_name(token) == token.written \in {"Capital", "uncased"}

(* A legal form in the text belongs to the name, unless the provider gave  *)
(* another one.                                                            *)
_match_ends_the_name(text, next, model_supplied_suffix) ==
    \/ next > Len(text)
    \/ text[next].written = "particle"
    \/ /\ text[next].word \in LEGAL_SUFFIXES /\ ~text[next].glued
       /\ ~model_supplied_suffix
    \/ /\ text[next].word \notin LEGAL_SUFFIXES \/ text[next].glued
       /\ ~_continues_a_name(text[next])

(* Word by word from i; a particle glued to the last one ends the name,    *)
(* glued to another one it is part of a different word.                    *)
MatchesAt(name, text, i, model_supplied_suffix) ==
    LET last == i + Len(name) - 1 IN
    /\ last <= Len(text)
    /\ \A k \in i .. last : text[k].word = name[k - i + 1]
    /\ \A k \in i .. last - 1 : ~text[k].glued
    /\ \/ text[last].glued
       \/ _match_ends_the_name(text, last + 1, model_supplied_suffix)

_match_index(name, text, model_supplied_suffix) ==
    \E i \in DOMAIN text : MatchesAt(name, text, i, model_supplied_suffix)

(* As reported, or without the legal form that the provider added; a       *)
(* single word is too generic to match without it.                         *)
name_appears_in(name, text) ==
    LET bare == strip_legal_suffix(name) IN
    \/ _match_index(name, text, FALSE)
    \/ bare # name /\ Len(bare) >= 2 /\ _match_index(bare, text, TRUE)

(* Mentions whose names reduce to the same words are one organization.     *)
OrganizationKey(name) == strip_legal_suffix(name)
=============================================================================
