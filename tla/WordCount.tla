----------------------------- MODULE WordCount ----------------------------
(***************************************************************************)
(* WordCount.java, a batch job of Flink: parallel tokenizers split the     *)
(* lines of all inputs, the words go to the sums by their key, one window  *)
(* ranks the sums, and the ranking is dealt out to parallel sinks, each    *)
(* with a file of its own.  A job that fails leaves its files as they are  *)
(* and is started again over them.                                         *)
(***************************************************************************)
EXTENDS Integers, FiniteSets, Sequences

CONSTANTS Alphabet,     \* the words in their order
          Tokens,       \* what a line is split into
          Lower,        \* Lower[t]: the word of t, or Empty
          Empty,        \* the token before a line's first word
          Inputs,       \* --input, each a sequence of lines
          Key,          \* Key[w]: the hash of w
          Parallelism,  \* of tokenizers, sums and sinks
          MaxFailures   \* bound on failed jobs

Words == {Alphabet[n] : n \in DOMAIN Alphabet}

ASSUME WordCountAssumption ==
    /\ Alphabet \in Seq(Words) /\ \A m, n \in DOMAIN Alphabet : Alphabet[m] = Alphabet[n] => m = n
    /\ Lower \in [Tokens -> Words \cup {Empty}] /\ Empty \notin Words
    /\ Inputs \in Seq(Seq(Seq(Tokens)))
    /\ Key \in [Words -> Nat]
    /\ Parallelism \in Nat \ {0} /\ MaxFailures \in Nat

Subtasks == 1..Parallelism
Lines    == UNION {{i} \X DOMAIN Inputs[i] : i \in DOMAIN Inputs}

VARIABLES
  stage,    \* "none", "tokenize", "sum", "write", "done"
  unread,   \* the lines no tokenizer has taken
  shuffle,  \* shuffle[s][w]: how often <<w, 1>> was sent to sum s
  window,   \* the sums in the order in which they came
  out,      \* what process has collected
  first,    \* the sink that is sent its first record
  opened,   \* the sinks that have opened their files
  files,    \* files[s]: the file of sink s
  failures

job  == <<unread, shuffle, window, out, first, opened>>
vars == <<stage, job, files, failures>>

None    == [s \in Subtasks |-> [w \in Words |-> 0]]
Nothing == [s \in Subtasks |-> <<>>]

Init ==
  /\ stage = "none"
  /\ unread = {} /\ shuffle = None /\ window = <<>> /\ out = <<>> /\ first = 1 /\ opened = {}
  /\ files = Nothing
  /\ failures = 0
---------------------------------------------------------------------------
\* Mutant: a file that is there is not written over.
ExecuteNoOverwrite ==
  /\ stage = "none" /\ files = Nothing
  /\ stage' = "tokenize" /\ unread' = Lines
  /\ UNCHANGED <<shuffle, window, out, first, opened, files, failures>>

Execute ==
  /\ stage = "none"
  /\ stage' = "tokenize" /\ unread' = Lines
  /\ UNCHANGED <<shuffle, window, out, first, opened, files, failures>>

\* flatMap: the tokens of line l, in lower case, and those that are emitted as w.
Lowered(l)    == [t \in DOMAIN Inputs[l[1]][l[2]] |-> Lower[Inputs[l[1]][l[2]][t]]]
Emitted(l, w) == {t \in DOMAIN Lowered(l) : Lowered(l)[t] # Empty /\ Lowered(l)[t] = w}

\* keyBy(value -> value.f0)
Partition(w) == (Key[w] % Parallelism) + 1

\* Any of the tokenizers may be the one that takes a line.
Tokenize(l) ==
  /\ stage = "tokenize" /\ l \in unread
  /\ unread' = unread \ {l}
  /\ shuffle' = [s \in Subtasks |-> [w \in Words |->
       shuffle[s][w] + IF Partition(w) = s THEN Cardinality(Emitted(l, w)) ELSE 0]]
  /\ UNCHANGED <<stage, window, out, first, opened, files, failures>>

\* In batch mode an exchange is over before who reads it begins.
Summing ==
  /\ stage = "tokenize" /\ unread = {}
  /\ stage' = "sum"
  /\ UNCHANGED <<job, files, failures>>

\* In batch mode sum(1) says nothing of a word before it is through with it.
Sum(s, w) ==
  /\ stage = "sum" /\ shuffle[s][w] > 0
  /\ window' = Append(window, [word |-> w, count |-> shuffle[s][w]])
  /\ shuffle' = [shuffle EXCEPT ![s][w] = 0]
  /\ UNCHANGED <<stage, unread, out, first, opened, files, failures>>

\* The map that process fills: its keys, and the value each was put with last.
KeySet(elements)   == {elements[n].word : n \in DOMAIN elements}
Value(elements, w) ==
  LET last == CHOOSE n \in DOMAIN elements :
                /\ elements[n].word = w
                /\ \A m \in DOMAIN elements : m > n => elements[m].word # w
  IN  elements[last].count

\* Mutant: a map that gives its keys in the order in which they were put first.
EarlierLinked(elements, v, w) ==
  \E n \in DOMAIN elements :
    elements[n].word = v /\ \A m \in 1..n : elements[m].word # w

\* A TreeMap gives its keys in their order.
Letter(w)              == CHOOSE n \in DOMAIN Alphabet : Alphabet[n] = w
Earlier(elements, v, w) == Letter(v) < Letter(w)

\* Mutant: the usual comparator, for which entries with equal values are equal.
CompareValues(c1, c2) == c2 - c1

\* The comparator of entriesSortedByValues, of the values of two entries.
Compare(c1, c2) == IF c2 - c1 # 0 THEN c2 - c1 ELSE 1

\* The TreeSet: an entry that comes is compared with those that are there.  It is left
\* out if one is its equal, and else has its place before or behind each of them.
Kept(elements) ==
  {w \in KeySet(elements) : \A v \in KeySet(elements) :
     Earlier(elements, v, w) => Compare(Value(elements, w), Value(elements, v)) # 0}

Precedes(elements, v, w) ==
  IF Earlier(elements, v, w) THEN Compare(Value(elements, w), Value(elements, v)) > 0
                             ELSE Compare(Value(elements, v), Value(elements, w)) < 0

Position(elements, w) == Cardinality({v \in Kept(elements) : Precedes(elements, v, w)}) + 1

EntriesSortedByValues(elements) ==
  [k \in 1..Cardinality(Kept(elements)) |->
     LET w == CHOOSE w \in Kept(elements) : Position(elements, w) = k
     IN  [word |-> w, count |-> Value(elements, w)]]

\* Every record has the time of the end of the input: there is one window.
Process ==
  /\ stage = "sum" /\ shuffle = None
  /\ stage' = "write"
  /\ out' = EntriesSortedByValues(window)
  /\ first' \in Subtasks
  /\ window' = <<>>
  /\ UNCHANGED <<unread, shuffle, opened, files, failures>>

\* One operator writes to many: the records are dealt out in turn, from any sink on.
Offset(s) == ((s - first) % Parallelism) + 1
Share(s)  == [k \in 1..((Len(out) - Offset(s) + Parallelism) \div Parallelism) |->
                out[(k - 1) * Parallelism + Offset(s)]]

\* OVERWRITE: each sink by itself, when it begins.
Open(s) ==
  /\ stage = "write" /\ s \notin opened
  /\ opened' = opened \cup {s}
  /\ files' = [files EXCEPT ![s] = <<>>]
  /\ UNCHANGED <<stage, unread, shuffle, window, out, first, failures>>

Write(s) ==
  /\ s \in opened /\ Len(files[s]) < Len(Share(s))
  /\ files' = [files EXCEPT ![s] = Append(@, Share(s)[Len(@) + 1])]
  /\ UNCHANGED <<stage, job, failures>>

Over(result) ==
  /\ stage' = result
  /\ unread' = {} /\ shuffle' = None /\ window' = <<>> /\ out' = <<>> /\ first' = 1 /\ opened' = {}
  /\ UNCHANGED files

Finished ==
  /\ stage = "write"
  /\ opened = Subtasks /\ \A s \in Subtasks : Len(files[s]) = Len(Share(s))
  /\ Over("done")
  /\ UNCHANGED failures

\* Nothing is restarted by itself; who started the job does it again.
Fail ==
  /\ stage \notin {"none", "done"} /\ failures < MaxFailures
  /\ failures' = failures + 1
  /\ Over("none")

Running ==
  \/ \E l \in Lines : Tokenize(l)
  \/ Summing
  \/ \E s \in Subtasks : (\E w \in Words : Sum(s, w)) \/ Open(s) \/ Write(s)
  \/ Process
  \/ Finished

Next == Execute \/ Running \/ Fail

Spec == Init /\ [][Next]_vars

\* Flink goes on with a job; one that failed is started again.
FairSpec == Spec /\ WF_vars(Execute \/ Running)
---------------------------------------------------------------------------
(* Properties *)

Entry == [word : Words, count : Nat]

TypeOK ==
  /\ stage \in {"none", "tokenize", "sum", "write", "done"}
  /\ unread \subseteq Lines
  /\ shuffle \in [Subtasks -> [Words -> Nat]]
  /\ window \in Seq(Entry) /\ out \in Seq(Entry)
  /\ first \in Subtasks /\ opened \subseteq Subtasks
  /\ files \in [Subtasks -> Seq(Entry)]
  /\ failures \in 0..MaxFailures

\* The reference: where a word is in a line and in some lines, how often it is in all of
\* them, and the place it takes.
Places(l, w)       == {t \in DOMAIN Inputs[l[1]][l[2]] : Lower[Inputs[l[1]][l[2]][t]] = w}
Occurrences(ls, w) == UNION {{l} \X Places(l, w) : l \in ls}
Occurs(w)          == Cardinality(Occurrences(Lines, w))

Found == {w \in Words : Occurs(w) > 0}

Before(v, w) ==
  \/ Occurs(v) > Occurs(w)
  \/ Occurs(v) = Occurs(w) /\ Letter(v) < Letter(w)

Rank(w) == Cardinality({v \in Found : Before(v, w)}) + 1

\* Every entry of file s is right, and their ranks are from, from + Parallelism, ...
Ranked(s, from) ==
  \A k \in DOMAIN files[s] : LET e == files[s][k] IN
    /\ e.word \in Found /\ e.count = Occurs(e.word)
    /\ Rank(e.word) = (k - 1) * Parallelism + from

\* Whoever looks into the output directory sees, in every file, words with the number of
\* their occurrences in all the inputs, and every Parallelism-th of the ranking from some
\* place on, with none left out (lines 97-141).  The files may be those of failed and of
\* later jobs, which deal the ranking out from different sinks on.
PartsAgree == \A s \in Subtasks : \E from \in Subtasks : Ranked(s, from)

\* When the job has ended well, its files together hold every word of all the inputs
\* exactly once, the ranking as a whole: the most frequent word first and equal ones in
\* their alphabetical order (lines 97-137, 178-189).
Histogram ==
  stage = "done" =>
    /\ PartsAgree
    /\ \A w \in Found : \E s \in Subtasks : \E k \in DOMAIN files[s] :
         /\ files[s][k].word = w
         /\ \A s2 \in Subtasks : \A k2 \in DOMAIN files[s2] :
              files[s2][k2].word = w => s2 = s /\ k2 = k

\* However often it failed and left files behind, a job that is started again comes
\* to its end (WriteMode.OVERWRITE, line 141).
Finishes == <>(stage = "done")
===========================================================================
