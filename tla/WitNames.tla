------------------------------- MODULE WitNames -------------------------------
(***************************************************************************)
(* Names in the WIT world (crates/haphe-wit/src/names.rs): the kebab-case  *)
(* of a source name, the escape of keywords, and the collision check of a  *)
(* scope (NameMap).                                                        *)
(*                                                                         *)
(* A text is a sequence of words.  A source name is spelled with the token *)
(* "_" between its snake_case words and one token per CamelCase word run;  *)
(* a kebab text has its words in sequence, the dashes between them left    *)
(* out, after the token "%" if it is escaped.                              *)
(***************************************************************************)
EXTENDS Naturals, Sequences, SequencesExt

CONSTANTS
  Spelling,   \* source name -> its text
  Camel,      \* CamelCase token -> its kebab words
  Keywords    \* words that WIT reserves

Escape(kebab) == IF Len(kebab) = 1 /\ kebab[1] \in Keywords THEN <<"%">> \o kebab ELSE kebab

ToKebab(text) ==
  LET words(token) == IF token = "_" THEN <<>>
                      ELSE IF token \in DOMAIN Camel THEN Camel[token] ELSE <<token>>
  IN  Escape(FlattenSeq([i \in DOMAIN text |-> words(text[i])]))

Kebab(name) == ToKebab(Spelling[name])

\* The identifier that an emitted text stands for in the parsed document.
Escaped(text) == text # <<>> /\ text[1] = "%"
Identifier(text) == IF Escaped(text) THEN Tail(text) ELSE text

\* An entry of a NameMap: the text that is inserted, and what it is inserted
\* for.  A user's own member stands for itself.
Entry(text) == [text |-> text, identity |-> <<"member", text>>]
EntryAs(text, identity) == [text |-> text, identity |-> <<identity, text>>]

\* NameMap: an insertion is refused when a different identity claimed the
\* same kebab name; the same identity twice passes.
Agree(entries) ==
  \A i, j \in DOMAIN entries :
    ToKebab(entries[i].text) = ToKebab(entries[j].text)
      => entries[i].identity = entries[j].identity
=============================================================================
