------------------------------ MODULE MCDriver ------------------------------
(***************************************************************************)
(* Small instances of Usage: every line of up to three words out of all    *)
(* kinds of words, and every line of up to five out of those that make     *)
(* getopt permute its operands.                                            *)
(***************************************************************************)
EXTENDS Usage

a == <<"a">>
b == <<"b">>
bad == <<"bad">>
gone == <<"gone">>

MCVocabulary ==
       <<"-", "v">> :> <<Flag("verbose")>>
    @@ <<"-", "h">> :> <<Flag("help")>>
    @@ <<"-", "V", "v">> :> <<Flag("version"), Flag("verbose")>>
    @@ <<"-", "o">> :> <<ToNextWord("short")>>
    @@ <<"-", "v", "o", "b">> :> <<Flag("verbose"), ToFile(b)>>
    @@ <<"-", "v", "-">> :> <<Flag("verbose"), LoneDash>>
    @@ <<"-", "x", "v">> :> <<Mistake, Flag("verbose")>>
    @@ <<"-", "-", "output">> :> <<ToNextWord("long")>>
    @@ <<"-", "-", "output", "=", "b">> :> <<ToFile(b)>>
    @@ <<"-", "-", "output", "=">> :> <<ToFile(<<>>), Mistake>>
    @@ <<"-", "-", "verb">> :> <<Flag("verbose")>>
    @@ <<"-", "-", "ver">> :> <<Mistake>>
    @@ <<"-", "-", "help", "=", "a">> :> <<Mistake>>
    @@ <<"-", "-", "-">> :> <<Mistake>>

Words == DOMAIN MCVocabulary \cup {Terminator, a, bad, gone, <<>>, <<"-">>}
PermutingWords == {a, b, <<"-", "o">>, <<"-", "v">>, Terminator}

Lines(words, n) == UNION {[1 .. k -> words] : k \in 0 .. n}
MCCommandLines == Lines(Words, 3) \cup Lines(PermutingWords, 5)

\* The object of <<"nop">> is two blocks long, that of an empty source one
\* block and a part, that of <<"ret">> a part of a block.  A jump to a name that
\* nothing defines may give an object of that length, be refused, or crash.
MCOutcomes ==
       <<>> :> {Object(<<"1", "2", "3">>)}
    @@ <<"nop">> :> {Object(<<"1", "2", "3", "4">>)}
    @@ <<"ret">> :> {Object(<<"1">>)}
    @@ <<"what">> :> {Refused}
    @@ <<".section", ".bss">> :> {Stopped}
    @@ <<"j", "nowhere">> :> {Object(<<"1">>), Refused, Crashed}

\* "b" is both a source and, in other lines, the output of an earlier run.
MCFileSystems ==
    {a :> <<"nop">> @@ b :> <<"ret">> @@ bad :> <<"what">> @@ Stdout :> <<>>,
     a :> <<".section", ".bss">> @@ b :> <<"j", "nowhere">> @@ Stdout :> <<>>}
=============================================================================
