------------------------------- MODULE Config -------------------------------
(***************************************************************************)
(* Class Config: a configuration file is read line by line, one line ahead *)
(* to see where a value ends; main() takes the job's settings from it.     *)
(* The class can also be edited and saved, and what is saved can be read.  *)
(*                                                                         *)
(* A text is a sequence of pieces: words, spaces, the delimiter, the       *)
(* comment mark and the newline.                                           *)
(***************************************************************************)
EXTENDS Integers, Sequences, SequencesExt

CONSTANTS
  Words,       (* pieces that are names, numbers and other text            *)
  Number,      (* what `>>` makes of a word at the head of a value         *)
  Delim,       (* m_Delimiter                                              *)
  Comment,     (* m_Comment                                                *)
  Space, Newline,
  Files,       (* the texts the file may have                              *)
  NoFile,      (* the file is missing                                      *)
  NumberKeys,  (* the keys main() reads an int from                        *)
  Junk,        (* what an uninitialised int may hold                       *)
  Edits        (* bound: the settings that may be added, key and value     *)

Pieces == Words \cup {Delim, Comment, Space, Newline}

ASSUME PiecesAssumption == /\ Delim \notin Words /\ Comment \notin Words
                           /\ {Space, Newline} \cap Words = {}
                           /\ Delim # Comment
                           /\ {Space, Newline} \cap {Delim, Comment} = {}
                           /\ Space # Newline
ASSUME NumberAssumption == Number \in [Words -> Int] /\ Junk \subseteq Int
ASSUME FilesAssumption  == Files \subseteq Seq(Pieces) /\ NoFile \notin Files

VARIABLES
  file,        (* the text of the file, or NoFile                          *)
  is,          (* the stream: text to come, eofbit, failbit                *)
  pc,          (* where the program is                                     *)
  line, nextline, key,   (* the locals of operator>>                       *)
  contents,    (* m_Contents: a function from keys to values               *)
  settings,    (* the numbers main() has read                              *)
  saved        (* what operator<< was given, or NoFile                     *)

stream == << file, is >>
locals == << line, nextline, key >>
vars   == << stream, pc, locals, contents, settings, saved >>

Opened(text) == [rest |-> text, eof |-> FALSE, fail |-> FALSE]
Empty        == [k \in {} |-> << >>]

Init ==
  /\ file     \in Files \cup {NoFile}
  /\ is       = Opened(<< >>)
  /\ pc       = "constructing"
  /\ line     = << >>
  /\ nextline = << >>
  /\ key      = << >>
  /\ contents = Empty
  /\ settings = [k \in NumberKeys |-> 0]
  /\ saved    = NoFile

-----------------------------------------------------------------------------
(* Texts *)

Has(s, p) == \E k \in DOMAIN s : s[k] = p
First(s, p) == Min({ k \in DOMAIN s : s[k] = p })

(* s.substr(0, s.find(p)), and what follows p *)
Before(s, p) == IF Has(s, p) THEN SubSeq(s, 1, First(s, p) - 1) ELSE s
After(s, p)  == SubSeq(s, First(s, p) + 1, Len(s))

IsBlank(s) == \A k \in DOMAIN s : s[k] \in {Space, Newline}

(* Mutant: only the whitespace in front is removed. *)
TrimFront(s) ==
  LET kept == { k \in DOMAIN s : s[k] \notin {Space, Newline} }
  IN  IF kept = {} THEN << >> ELSE SubSeq(s, Min(kept), Len(s))

Trim(s) ==
  LET kept == { k \in DOMAIN s : s[k] \notin {Space, Newline} }
  IN  IF kept = {} THEN << >> ELSE SubSeq(s, Min(kept), Max(kept))

(* std::getline(is, str): the line read, and the stream after it.  When    *)
(* eofbit is set, it fails and leaves str as it was.                       *)
getline(str) ==
  IF is.rest = << >>
  THEN [str |-> IF is.eof THEN str ELSE << >>,
        is  |-> [is EXCEPT !.eof = TRUE, !.fail = TRUE]]
  ELSE [str |-> Before(is.rest, Newline),
        is  |-> IF Has(is.rest, Newline)
                THEN [is EXCEPT !.rest = After(@, Newline)]
                ELSE [is EXCEPT !.rest = << >>, !.eof = TRUE]]

-----------------------------------------------------------------------------
(* The constructor and operator>> *)

Construct ==
  /\ pc = "constructing"
  /\ file # NoFile
  /\ is' = Opened(file)
  /\ pc' = "outer"
  /\ UNCHANGED << file, locals, contents, settings, saved >>

(* throw File_not_found, which main() does not catch *)
Throw ==
  /\ pc = "constructing"
  /\ file = NoFile
  /\ pc' = "terminated"
  /\ UNCHANGED << stream, locals, contents, settings, saved >>

(* Ignore comments, and parse the line if it contains a delimiter. *)
Parse(text) ==
  LET code == Before(text, Comment)
  IN  IF Has(code, Delim)
      THEN /\ key'  = Before(code, Delim)
           /\ line' = After(code, Delim)
           /\ pc'   = "ahead"
      ELSE /\ line' = code
           /\ UNCHANGED << key, pc >>

ReadLine ==
  /\ pc = "outer" /\ nextline = << >> /\ ~ is.fail
  /\ is' = getline(<< >>).is
  /\ Parse(getline(<< >>).str)
  /\ UNCHANGED << file, nextline, contents, settings, saved >>

(* Mutant: the line that was read ahead is used and kept. *)
UseReadAheadKeeping ==
  /\ pc = "outer" /\ nextline # << >>
  /\ Parse(nextline)
  /\ UNCHANGED << stream, nextline, contents, settings, saved >>

(* we read ahead; use it now *)
UseReadAhead ==
  /\ pc = "outer" /\ nextline # << >>
  /\ nextline' = << >>
  /\ Parse(nextline)
  /\ UNCHANGED << stream, contents, settings, saved >>

EndOfStream ==
  /\ pc = "outer" /\ nextline = << >> /\ is.fail
  /\ pc' = "loaded"
  /\ UNCHANGED << stream, locals, contents, settings, saved >>

(* One round of the inner loop: getline(is, nextline), and then a test. *)
Ahead == getline(nextline)

ReadAhead == /\ pc = "ahead" /\ ~ is.fail
             /\ is' = Ahead.is
             /\ UNCHANGED << file, key, contents, settings, saved >>

(* Stop at blank line, and at the end of the stream, which leaves one. *)
StopAtBlank ==
  /\ ReadAhead
  /\ IsBlank(Ahead.str)
  /\ nextline' = Ahead.str
  /\ pc' = "store"
  /\ UNCHANGED line

(* Stop at a line with a key. *)
StopAtKey ==
  /\ ReadAhead
  /\ ~ IsBlank(Ahead.str)
  /\ Has(Before(Ahead.str, Comment), Delim)
  /\ nextline' = Before(Ahead.str, Comment)
  /\ pc' = "store"
  /\ UNCHANGED line

(* Mutant: a continuation line is glued to the line before it. *)
ContinueGlued ==
  /\ ReadAhead
  /\ ~ IsBlank(Ahead.str)
  /\ ~ Has(Before(Ahead.str, Comment), Delim)
  /\ nextline' = Before(Ahead.str, Comment)
  /\ line' = line \o nextline'
  /\ UNCHANGED pc

(* The value continues; a line with only a comment adds no newline. *)
Continue ==
  /\ ReadAhead
  /\ ~ IsBlank(Ahead.str)
  /\ ~ Has(Before(Ahead.str, Comment), Delim)
  /\ nextline' = Before(Ahead.str, Comment)
  /\ line' = line \o (IF IsBlank(nextline') THEN << >> ELSE << Newline >>) \o nextline'
  /\ UNCHANGED pc

(* while (!terminate && is) *)
StopAtFailure ==
  /\ pc = "ahead" /\ is.fail
  /\ pc' = "store"
  /\ UNCHANGED << stream, locals, contents, settings, saved >>

(* Mutant: the first value of a repeated key is kept. *)
WithFirst(k, value) == [j \in DOMAIN contents \cup {k} |->
                          IF j \in DOMAIN contents THEN contents[j] ELSE value]

(* m_Contents[key] = value *)
With(k, value) == [j \in DOMAIN contents \cup {k} |->
                     IF j = k THEN value ELSE contents[j]]

(* overwrites if key is repeated *)
Store ==
  /\ pc = "store"
  /\ contents' = With(Trim(key), Trim(line))
  /\ pc' = "outer"
  /\ UNCHANGED << stream, locals, settings, saved >>

Load == \/ ReadLine \/ UseReadAhead \/ EndOfStream \/ StopAtBlank \/ StopAtKey
        \/ Continue \/ StopAtFailure \/ Store

-----------------------------------------------------------------------------
(* What a program does with a Config *)

(* Read(k, 0) and string_as_T<int>(): the number at the head of the value, *)
(* 0 when there is none, but nothing at all, so an uninitialised int, when *)
(* the value is empty.                                                     *)
Converted(k) ==
  IF k \notin DOMAIN contents   THEN {0}
  ELSE IF contents[k] = << >>   THEN Junk
  ELSE IF Head(contents[k]) \in Words THEN {Number[Head(contents[k])]}
  ELSE {0}

(* main() reads map_num and reduce_num, and creates the JobTracker. *)
ReadSettings ==
  /\ pc = "loaded" /\ saved = NoFile
  /\ settings' \in [NumberKeys -> UNION { Converted(k) : k \in NumberKeys }]
  /\ \A k \in NumberKeys : settings'[k] \in Converted(k)
  /\ pc' = "running"
  /\ UNCHANGED << stream, locals, contents, saved >>

(* The other users of the class edit the settings and save them, once. *)
Editing == pc \in {"loaded", "edited"} /\ saved = NoFile

AddSetting(k, value) ==
  /\ Editing
  /\ contents' = With(k, value)
  /\ pc' = "edited"
  /\ UNCHANGED << stream, locals, settings, saved >>

RemoveSetting(k) ==
  /\ Editing
  /\ k \in DOMAIN contents
  /\ contents' = Restrict(contents, DOMAIN contents \ {k})
  /\ pc' = "edited"
  /\ UNCHANGED << stream, locals, settings, saved >>

(* Remove() of a key that is not there: erase(end()) is undefined. *)
RemoveAbsent(k) ==
  /\ Editing
  /\ k \notin DOMAIN contents
  /\ pc' = "undefined"
  /\ UNCHANGED << stream, locals, contents, settings, saved >>

(* Mutant: operator<< ends no line. *)
WrittenWithoutEnd(c) ==
  FlattenSeq([i \in 1 .. Cardinality(DOMAIN c) |->
    LET k == SetToSeq(DOMAIN c)[i] IN k \o << Space, Delim, Space >> \o c[k]])

(* operator<<: the text it writes, the keys in some order *)
Written(c) ==
  FlattenSeq([i \in 1 .. Cardinality(DOMAIN c) |->
    LET k == SetToSeq(DOMAIN c)[i]
    IN  k \o << Space, Delim, Space >> \o c[k] \o << Newline >>])

(* Save the contents, and construct another Config from what was written. *)
SaveAndConstruct ==
  /\ Editing
  /\ saved'    = contents
  /\ file'     = Written(contents)
  /\ is'       = Opened(file')
  /\ contents' = Empty
  /\ pc'       = "outer"
  /\ UNCHANGED << locals, settings >>

-----------------------------------------------------------------------------

Terminated ==
  /\ \/ pc \in {"terminated", "undefined", "running"}
     \/ pc = "loaded" /\ saved # NoFile
  /\ UNCHANGED vars

Next ==
  \/ Construct \/ Throw \/ Load \/ ReadSettings \/ SaveAndConstruct \/ Terminated
  \/ \E e \in Edits : AddSetting(e.key, e.value) \/ RemoveSetting(e.key) \/ RemoveAbsent(e.key)

Spec == Init /\ [][Next]_vars /\ WF_vars(Load)

-----------------------------------------------------------------------------
(* Properties *)

(* The locals of the parser are texts, and what is stored is trimmed: keys *)
(* are found by the name main() asks for.                                  *)
TypeOK ==
  /\ file = NoFile \/ file \in Seq(Pieces)
  /\ is.rest \in Seq(Pieces) /\ is.eof \in BOOLEAN /\ is.fail \in BOOLEAN
  /\ pc \in {"constructing", "outer", "ahead", "store", "loaded", "edited",
             "running", "terminated", "undefined"}
  /\ {line, nextline, key} \subseteq Seq(Pieces)
  /\ \A k \in DOMAIN contents : {k, contents[k]} \subseteq Seq(Pieces)
  /\ \A k \in DOMAIN contents : \A s \in {k, contents[k]} :
       s # << >> => {Head(s), Last(s)} \cap {Space, Newline} = {}
  /\ settings \in [NumberKeys -> Int]

(* The reference the parser is checked against: what the text of a file    *)
(* says, without reading it in steps.  A line is known by where it ends.   *)
Ends      == { k \in DOMAIN file : file[k] = Newline } \cup {Len(file) + 1}
LineAt(e) == SubSeq(file, Max({0} \cup { k \in Ends : k < e }) + 1, e - 1)
Code(e)   == Before(LineAt(e), Comment)
KeyLines  == { e \in Ends : Has(Code(e), Delim) }
KeyOf(e)  == Trim(Before(Code(e), Delim))

(* The line at f continues the value of the line at e.                     *)
Belongs(f, e) ==
  /\ e \in KeyLines /\ f \in Ends /\ e < f
  /\ \A l \in Ends : e < l /\ l <= f => l \notin KeyLines /\ ~ IsBlank(LineAt(l))

(* The words of a text, as whitespace separates them                       *)
Fields(s) ==
  LET fields[n \in 0 .. Len(s)] ==
        IF n = 0 THEN << >>
        ELSE LET before == fields[n - 1]
             IN  IF IsBlank(<< s[n] >>) THEN before
                 ELSE IF n = 1 \/ IsBlank(<< s[n - 1] >>) THEN Append(before, << s[n] >>)
                 ELSE [before EXCEPT ![Len(before)] = Append(@, s[n])]
  IN  fields[Len(s)]

(* The words of a value: those of its line, and of the lines up to n that  *)
(* continue it.                                                            *)
FieldsUpTo(e, n) ==
  Fields(After(Code(e), Delim)) \o
  FlattenSeq([f \in 1 .. n |-> IF Belongs(f, e) THEN Fields(Code(f)) ELSE << >>])

ValueFields(e) == FieldsUpTo(e, Len(file) + 1)

KeyLineOf(k) == Max({ e \in KeyLines : KeyOf(e) = k })

(* getline() fails without clearing its string when the last line has no   *)
(* newline: such a line is added twice if it continues a value.            *)
LastLineTwice ==
  LET n == Len(file) + 1
  IN  \E e \in KeyLines : Belongs(n, e) /\ ~ IsBlank(Code(n))

(* The settings are the ones in the file: one for each key, from the last  *)
(* line that has it, with the words of that line and of the lines that     *)
(* continue it, however lines are read ahead and used later.               *)
ContentsAreTheFile ==
  pc = "loaded" /\ ~ LastLineTwice =>
    /\ DOMAIN contents = { KeyOf(e) : e \in KeyLines }
    /\ \A k \in DOMAIN contents : Fields(contents[k]) = ValueFields(KeyLineOf(k))

(* main() starts the job with the numbers of the file, and with 0 for one  *)
(* that the file lacks; a key without a value is the one case in which the *)
(* number comes from nowhere.                                              *)
SettingsComeFromTheFile ==
  pc = "running" => \A k \in NumberKeys :
    IF \E e \in KeyLines : KeyOf(e) = k
    THEN LET fields == ValueFields(KeyLineOf(k))
         IN  fields # << >> =>
               settings[k] = IF fields[1][1] \in Words THEN Number[fields[1][1]] ELSE 0
    ELSE settings[k] = 0

(* What operator<< writes, operator>> reads back: multi-line values, empty *)
(* ones and edited ones included.                                          *)
SavedReadsBack ==
  pc = "loaded" /\ saved # NoFile => contents = saved

(* Reading comes to an end: no line that was read ahead is used for ever.  *)
LoadingEnds == pc = "outer" ~> pc = "loaded"

=============================================================================
