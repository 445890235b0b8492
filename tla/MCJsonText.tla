----------------------------- MODULE MCJsonText -----------------------------
(***************************************************************************)
(* What lies between a document and its text: the parser and the printer   *)
(* over tokens (JsonRoundTrip); the tokens themselves, read from bytes and *)
(* escaped to bytes; selectors; strings and what is replaced in them.  One *)
(* behaviour of the run is of one of them, the others stay as they were.   *)
(***************************************************************************)
EXTENDS JsonRoundTrip, CeeStr, JsonTokenizer

VARIABLES using,
          meant,
          root, path, text, args, at, next, token, o, found

tokens == <<tokenizer, meant>>
selector == <<root, path, text, args, at, next, token, o, found>>

Words(alphabet, n) == UNION {[1..k -> alphabet] : k \in 0..n}

-----------------------------------------------------------------------------
(* Tokens.  Numbers of up to five bytes, and the short words of a text     *)
(* with white space, quotes and a comment.                                 *)
Terminator == {<<0>>}
Escape == INSTANCE JsonEscape
Lexicon == INSTANCE JsonLexicon

NumberTexts == Words({48, 49, 45, 46, 101, 44}, 5)
WordPieces == {<<116, 114, 117, 101>>, <<110, 117, 108, 108>>, <<102, 97, 108, 115>>, <<101>>,
               <<91>>, <<44>>, <<34>>, <<49>>, <<47>>, <<10>>, <<32>>}
WordTexts == {FlattenSeq(w) : w \in Words(WordPieces, 4)}

(* Pieces of strings: what is written, and the bytes that are meant.       *)
Plain == [src |-> <<97>>, out |-> <<97>>]
Newline == [src |-> <<92, 110>>, out |-> <<10>>]
Quotation == [src |-> <<92, 34>>, out |-> <<34>>]
Euro == [src |-> <<92, 117, 50, 48, 97, 99>>, out |-> <<226, 130, 172>>]          \* \u20ac
High == [src |-> <<92, 117, 100, 56, 51, 100>>, out |-> <<>>]                     \* \ud83d
Low == [src |-> <<92, 117, 68, 69, 48, 48>>, out |-> <<>>]                        \* \uDE00
RawEuro == [src |-> <<226, 130, 172>>, out |-> <<226, 130, 172>>]
Overlong == [src |-> <<193, 129>>, out |-> <<193, 129>>]
Torn == [src |-> <<226, 130>>, out |-> <<226, 130>>]
Unknown == [src |-> <<92, 120>>, out |-> <<>>]
Control == [src |-> <<1>>, out |-> <<>>]
Pieces == {Plain, Newline, Quotation, Euro, High, Low, RawEuro, Overlong, Torn, Unknown, Control}
Source(pieces) == <<34>> \o FlattenSeq([i \in DOMAIN pieces |-> pieces[i].src]) \o <<34>>

(* What a string of pieces is: pairs of surrogates are one character, a    *)
(* first one at the very end is dropped, and bytes that are not UTF-8 are  *)
(* refused in a string with escapes only.                                  *)
Pair(ps, i) == i < Len(ps) /\ ps[i] = High /\ ps[i + 1] = Low
Decoded(ps) == FlattenSeq([i \in DOMAIN ps |-> IF Pair(ps, i) THEN <<240, 159, 152, 128>> ELSE ps[i].out])
Proper(ps) ==
    /\ Range(ps) \cap {Unknown, Control} = {}
    /\ \A i \in DOMAIN ps : /\ ps[i] = High => Pair(ps, i) \/ i = Len(ps)
                            /\ ps[i] = Low => i > 1 /\ Pair(ps, i - 1)
    /\ (\E i \in DOMAIN ps : 92 \in Range(ps[i].src)) => Range(ps) \cap {Overlong, Torn} = {}

(* Texts to print and to read again.                                       *)
PrintTexts == Words({97, 34, 92, 47, 10, 1, 31}, 3) \cup {<<10>> \o RawEuro.src}
EscapeTexts == Words({97, 34, 92, 10, 9}, 3)

TokensInit ==
    \/ \E t \in NumberTexts \cup WordTexts : Reads(t) /\ meant = [as |-> "tokens", of |-> t]
    \/ \E ps \in Words(Pieces, 4) : Reads(Source(ps)) /\ meant = [as |-> "string", of |-> ps]
    \/ \E t \in PrintTexts : Reads(Escape!Quoted(t)) /\ meant = [as |-> "text", of |-> t]
    \/ \E t \in EscapeTexts : /\ Reads(<<34>> \o Escape!EscapeString(t) \o <<34>>)
                              /\ meant = [as |-> "text", of |-> t]
TokensNext == CutToken /\ UNCHANGED meant

Results == Front(read)
Is(s) == Len(Results) = 1 /\ Results[1].kind = "str" /\ Results[1].val = s

(* A text is cut into tokens exactly if it consists of tokens of JSON, and *)
(* into those.                                                             *)
TokensAreJson == meant.as = "tokens" =>
    IF Accepted THEN [i \in DOMAIN Results |-> Results[i].kind] \in Lexicon!TokensOf(meant.of)
    ELSE Lexicon!TokensOf(meant.of) = {}

(* An integer is the number its digits mean, as far as there are numbers.  *)
IntegersExact ==
    meant.as = "tokens" /\ Accepted /\ Lexicon!IntegerText(meant.of) =>
        LET limits == {- I64Max - 1, I64Max}
            exact == Lexicon!IntegerMeant(meant.of)
        IN  Results[1].val = <<Min({Max(limits), Max({Min(limits), exact})})>>

(* A string holds the characters its escapes and bytes mean, and is        *)
(* refused if they mean none.                                              *)
StringsDecoded == meant.as = "string" =>
    IF Proper(meant.of) THEN Accepted /\ Is(Decoded(meant.of)) ELSE ~ Accepted

(* What the printer writes for a string is read as that string.            *)
PrintedReadBack == meant.as = "text" => Accepted /\ Is(meant.of)

(* Safety: what is read is what the text means, whether it was written by  *)
(* hand, by the printer or by cee_json_escape_string (cee_json_next_token). *)
ReadsWhatIsMeant == Ended => TokensAreJson /\ IntegersExact /\ StringsDecoded /\ PrintedReadBack

-----------------------------------------------------------------------------
(* Selectors: of paths of up to four steps, and any text of up to four    *)
(* characters, in a document with lists and objects in each other.         *)
Leaf(t, val) == [t |-> t, val |-> val, elems |-> <<>>, fields |-> [k \in {} |-> 0]]
Array(s) == [Leaf("array", 0) EXCEPT !.elems = s]
Object(f) == [Leaf("object", 0) EXCEPT !.fields = f]
Document == Object(<<"a">> :> Array(<<Leaf("i64", 7), Object(<<"a">> :> Leaf("string", "x"))>>)
                   @@ <<"a", "b">> :> Array(<<Array(<<Leaf("null", 0), Leaf("bool", 1)>>),
                                              Leaf("double", 2)>>))

Steps == {[by |-> "field", name |-> <<"a">>], [by |-> "field", name |-> <<"a", "b">>],
          [by |-> "index", i |-> 0], [by |-> "star", i |-> 1], [by |-> "named", name |-> <<"a">>],
          [by |-> "type", letter |-> "s"], [by |-> "type", letter |-> "n"],
          [by |-> "type", letter |-> "a"], [by |-> "type", letter |-> "o"],
          [by |-> "type", letter |-> "b"], [by |-> "type", letter |-> "!"]}

L == INSTANCE JsonSelect WITH
    MaxToken <- 2, Garbage <- {<<"a">>, <<"b">>}, Roots <- {Document}, Paths <- Words(Steps, 4),
    Texts <- Words({".", "[", "]", ":", "a", "0", "o"}, 4)

-----------------------------------------------------------------------------
(* Strings: blocks of four bytes, of which the header takes two.           *)
StringChars == {"a", " "}
Space == {" "}
StringInputs == {<<>>, <<" ", "a">>, <<"a", " ", " ">>}
StringSources == Words(StringChars, 3)
Tails == {<<>>, <<"a">>}
Stale == {<<"a">>}
P(old, new) == <<old, new>>
Replacements == {<<P(<<"a">>, <<" ", " ">>)>>, <<P(<<"a", "a">>, <<" ">>)>>, <<P(<<"a">>, <<>>)>>,
                 <<P(<<"a">>, <<" ">>), P(<<"a", " ">>, <<"a">>), P(<<" ">>, <<"a", "a">>)>>}

ASSUME StringsAssumption == StrAssumption /\ MemoryEnds

-----------------------------------------------------------------------------
Blank == mem = <<0>> /\ buf_end = 0 /\ buf = 0 /\ line = 0 /\ read = <<>> /\ scratch = <<>>
         /\ meant = [as |-> "none"]
Unselected == L!SelectsBy(Document, <<>>)

TextInit ==
    /\ StrInit
    /\ \/ using = "documents" /\ RoundTripInit /\ Blank /\ Unselected
       \/ RoundTripInit /\ force_eof /\ fmt = "compact" /\
             \/ using = "tokens" /\ TokensInit /\ Unselected
             \/ using = "selectors" /\ Blank /\ L!Init
             \/ using = "strings" /\ Blank /\ Unselected

TextNext ==
    \/ using = "documents" /\ RoundTripNext /\ UNCHANGED <<tokens, selector, string, using>>
    \/ using = "tokens" /\ TokensNext /\ UNCHANGED <<everything, selector, string, using>>
    \/ using = "selectors" /\ L!Next /\ UNCHANGED <<everything, tokens, string, using>>
    \/ using = "strings" /\ StrNext /\ UNCHANGED <<everything, tokens, selector, using>>

TextSpec == TextInit /\ [][TextNext]_<<everything, tokens, selector, string, using>>

SelectsPath == L!SelectsPath
=============================================================================
