----------------------------- MODULE EventNames -----------------------------
(***************************************************************************)
(* How EventNameRegistry makes the wire name of an event type: from its    *)
(* EventAttribute, or from its namespace and the words of its Pascal-case  *)
(* name.  Pure functions of the type; a name is a sequence of characters,  *)
(* and a wire name the sequence of its dot-separated parts, with version.  *)
(***************************************************************************)
EXTENDS Integers, SequencesExt, FiniteSetsExt

CONSTANTS
    Chars,          \* the characters of type names,
    Capitals,       \* of which these are upper case,
    Smalls,         \* lower case,
    Digits,         \* or digits; the others are none of these
    LowerOf,        \* ToLowerInvariant
    Types,          \* the CLR types of events
    Namespace,      \* of each type: the last segment of its namespace, if any,
    TypeName,       \* Type.Name,
    AttributeName,  \* the dot-separated parts of EventAttribute.Name, if any,
    Version,        \* and its version, 1 if it has no attribute
    App, Event,     \* the parts "app" and "event"
    MaxName         \* bound: the length of the names SplitsAsRead looks at

ASSUME NamesAssumption ==
    /\ Capitals \cup Smalls \cup Digits \subseteq Chars
    /\ Capitals \cap Smalls = {} /\ Digits \cap (Capitals \cup Smalls) = {}
    /\ LowerOf \in [Chars -> Chars]
    /\ \A t \in Types : TypeName[t] # <<>>
    /\ MaxName \in Nat

\* Mutated form: the first letter after an acronym does not start a word.
StartsWordNoAcronym(name, i) ==
    \/ (name[i - 1] \in Digits) # (name[i] \in Digits)
    \/ name[i - 1] \in Smalls /\ name[i] \in Capitals

\* Whether a word starts at character i.
StartsWord(name, i) ==
    LET prev == name[i - 1]
        curr == name[i]
    IN  \/ (prev \in Digits) # (curr \in Digits)
        \/ /\ curr \in Capitals
           /\ \/ prev \in Smalls
              \/ prev \in Capitals /\ i < Len(name) /\ name[i + 1] \in Smalls

\* The loop over the name: what it has cut off, and where the current word starts.
SplitPascal(name) ==
    LET loop[i \in 1..Len(name)] ==
            IF i = 1 THEN [result |-> <<>>, start |-> 1]
            ELSE IF StartsWord(name, i)
                 THEN [result |-> Append(loop[i - 1].result,
                                         SubSeq(name, loop[i - 1].start, i - 1)),
                       start |-> i]
                 ELSE loop[i - 1]
        last == loop[Len(name)]
    IN  Append(last.result, SubSeq(name, last.start, Len(name)))

ToLower(word) == [i \in DOMAIN word |-> LowerOf[word[i]]]

\* BuildConventionalName: a name of one word gets "event" for its action.
ConventionalName(t) ==
    LET words == SplitPascal(TypeName[t])
        tokens == [k \in DOMAIN words |-> ToLower(words[k])]
    IN  <<IF Namespace[t] = <<>> THEN App ELSE ToLower(Namespace[t])>>
          \o (IF Len(tokens) = 1 THEN Append(tokens, Event) ELSE tokens)

\* GetEventKey: the attribute's name counts only if it contains a dot.
EventKey ==
    [t \in Types |->
        <<IF Len(AttributeName[t]) > 1 THEN AttributeName[t] ELSE ConventionalName(t),
          Version[t]>>]

-----------------------------------------------------------------------------
(* What the words of a name are, said without a loop. *)

\* No digit beside another character, no capital after a lower-case letter, and
\* an acronym is a word of its own.
IsWord(w) ==
    /\ \A i \in DOMAIN w : (w[i] \in Digits) = (w[1] \in Digits)
    /\ \A i \in 1..(Len(w) - 1) : ~(w[i] \in Smalls /\ w[i + 1] \in Capitals)
    /\ \A i \in 1..(Len(w) - 2) :
          ~(w[i] \in Capitals /\ w[i + 1] \in Capitals /\ w[i + 2] \in Smalls)

\* Where the k-th piece starts.
Rank(starts, i) == Cardinality({j \in starts : j <= i})
StartOf(starts, k) == CHOOSE i \in starts : Rank(starts, i) = k

Pieces(name, cuts) ==
    LET starts == {1} \cup cuts
        n == Cardinality(starts)
    IN  [k \in 1..n |->
            SubSeq(name, StartOf(starts, k),
                   IF k = n THEN Len(name) ELSE StartOf(starts, k + 1) - 1)]

\* The ways to cut a name into words, no capital from its lower-case letter.
Readings(name) ==
    {cuts \in SUBSET (2..Len(name)) :
        /\ \A w \in ToSet(Pieces(name, cuts)) : IsWord(w)
        /\ \A i \in cuts : ~(name[i - 1] \in Capitals /\ name[i] \in Smalls)}

\* SplitPascal cuts a name into as few words as can be, and nobody could read it
\* in another way.
SplitsAsRead(name) ==
    LET fewest == Min({Cardinality(cuts) : cuts \in Readings(name)})
    IN  {Pieces(name, cuts) : cuts \in {c \in Readings(name) : Cardinality(c) = fewest}}
            = {SplitPascal(name)}

ShortNames == UNION {[1..k -> Chars] : k \in 1..MaxName}
=============================================================================
