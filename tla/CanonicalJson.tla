---------------------------- MODULE CanonicalJson ----------------------------
(***************************************************************************)
(* The frozen encoder of hashed documents (schemas/canonical_json.py).  A  *)
(* document is a function from raw keys to scalars; nested containers are  *)
(* encoded member by member in the same way and are left out.  The text,   *)
(* and its hash, is as good as the function that it spells out.            *)
(***************************************************************************)
EXTENDS Naturals

CONSTANTS Strings,     \* strings as somebody typed them
          Nfc,         \* the normal form of each
          CodePoints   \* the rank of each in the order of sorted

ASSUME StringsAreTyped ==
    /\ Nfc \in [Strings -> Strings]
    /\ \A s \in Strings : Nfc[Nfc[s]] = Nfc[s]
    /\ CodePoints \in [Strings -> Nat]
    /\ \A s \in Strings, t \in Strings : CodePoints[s] = CodePoints[t] => s = t

Kinds == {"str", "int", "float", "bool", "none"}

IsDocument(document) ==
    /\ DOMAIN document \subseteq Strings
    /\ document \in [DOMAIN document -> [kind : Kinds, text : Strings]]

-----------------------------------------------------------------------------
\* Mutant: only keys are normalized.
CanonicalAsTyped(value) == value

Canonical(value) ==
    IF value.kind = "str" THEN [value EXCEPT !.text = Nfc[value.text]] ELSE value

\* A float, in any place, raises.
Encodable(document) == \A key \in DOMAIN document : document[key].kind # "float"

\* Of keys with one normal form the last in raw order is written.
Encode(document) ==
    LET Spellings(key) == {raw \in DOMAIN document : Nfc[raw] = key}
        LastSpelling(key) ==
            CHOOSE raw \in Spellings(key) :
                \A other \in Spellings(key) : CodePoints[other] <= CodePoints[raw]
    IN  [key \in {Nfc[raw] : raw \in DOMAIN document} |->
            Canonical(document[LastSpelling(key)])]

DocumentHash(document) == Encode(document)
-----------------------------------------------------------------------------
(* What a document says, however it is typed.                              *)
Meaning(document) ==
    {<<Nfc[key], document[key].kind,
       IF document[key].kind = "str" THEN Nfc[document[key].text] ELSE document[key].text>> :
        key \in DOMAIN document}

KeysStayApart(document) ==
    \A k \in DOMAIN document, l \in DOMAIN document : Nfc[k] = Nfc[l] => k = l
=============================================================================
