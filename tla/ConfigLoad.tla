----------------------------- MODULE ConfigLoad -----------------------------
(***************************************************************************)
(* How a value gets from a line of a configuration file to its parameter:  *)
(* parserBasicCfg for fservo.cfg, parserCfg for net.cfg, NetDetect's       *)
(* parserNetCfg for the network's file, Common::setCfg and initCfg.  The   *)
(* files look alike, the readers do not work alike.                        *)
(*                                                                         *)
(* A pair is what follows "key=" on its line, as a sequence of "x" and "y" *)
(* for runs of letters, "q" for a quote, blanks and #.  One key stands for *)
(* all of a section, and one that the program cannot do without for the    *)
(* others: the input_resolution of fservo.cfg, the camera's user of        *)
(* net.cfg, the mask of a yolo layer.                                      *)
(***************************************************************************)
EXTENDS Integers, Sequences, SequencesExt

CONSTANTS
  Pairs,        \* what may follow "key="
  MaxLines      \* bound: lines of the file

Blank == "blank"
Hash  == "hash"
Char  == {"x", "y", "q", Blank, Hash}

ASSUME ConfigConstants == Pairs \subseteq Seq(Char) /\ MaxLines \in Nat

VARIABLES
  type,         \* CfgType, or "Model" for the network's: which file is read
  others,       \* "all", "some" or "none" of the other lines it needs are there
  loadPc,       \* "read", "loaded", "dead": an exception nobody catches, or
                \* "hung": parserBasicCfg never ends
  lines,        \* how many were read
  inside,       \* parserBasicCfg is in the loop over a section's lines
  held,         \* and temp is a line of the file, not the empty string
  key,          \* the section, headName or the static key
  mpVal,        \* the section's value so far, in parserBasicCfg
  mp,           \* Common's map of each section it knows
  cameraUser,   \* netPara's, whose value is written in quotes
  head, written, odd  \* history: the last header, what was written, Oddity

loadVars == <<type, others, loadPc, lines, inside, held, key, mpVal, mp,
              cameraUser, head, written, odd>>

Known    == {"needed", "other"}
Sections == Known \cup {"unknown"}
Missing  == <<"missing">>

LoadInit ==
  /\ type \in {"Basic", "Net", "Model"} /\ loadPc = "read" /\ lines = 0
  /\ others \in {"all", "some", "none"}
  /\ inside = FALSE /\ held = FALSE /\ key = "" /\ mpVal = Missing
  /\ mp = [s \in Known |-> Missing] /\ cameraUser = Missing
  /\ head = "" /\ written = [s \in Sections |-> Missing] /\ odd = {}

-----------------------------------------------------------------------------
(* Conversions.                                                            *)

Has(c, line)   == \E i \in DOMAIN line : line[i] = c
Upto(c, line)  == SubSeq(line, 1, SelectInSeq(line, LAMBDA x : x = c) - 1)

(* What is kept of the first n characters.                                 *)
rmStrSpace(line) ==
  LET kept[n \in 0 .. Len(line)] ==
        IF n = 0 THEN <<>>
        ELSE IF line[n] = Blank THEN kept[n - 1]
                                ELSE Append(kept[n - 1], line[n])
  IN  kept[Len(line)]

(* Mutant: the blank before the comment stays. *)
BasicValue_KeepsBlank(r) == IF Has(Hash, r) THEN Upto(Hash, r) ELSE r

(* parserBasicCfg: a comment is cut off from the first blank on, wherever  *)
(* that is; without one, from the # on.                                    *)
BasicValue(r) ==
  IF ~Has(Hash, r) THEN r
  ELSE IF Has(Blank, r) THEN Upto(Blank, r) ELSE Upto(Hash, r)

(* parserCfg and parserNetCfg: no blank survives.                          *)
NetValue(r) == LET s == rmStrSpace(r) IN IF Has(Hash, s) THEN Upto(Hash, s) ELSE s

(* std::map::insert: a key that is there keeps its value.                  *)
(* Mutant: the value is replaced. *)
Inserted_Last(old, new) == new

Inserted(old, new) == IF old = Missing THEN new ELSE old

(* A pair is inserted into Common's map, but assigned to NetDetect's.      *)
PairValue(old, new) == IF type = "Net" THEN Inserted(old, new) ELSE new

(* Common::setCfg: a whole section for fservo.cfg, a pair for net.cfg.     *)
setCfg(s, v) == IF s \in Known THEN [mp EXCEPT ![s] = v] ELSE mp

-----------------------------------------------------------------------------
(* What a reader of the file would not expect to matter.                   *)
Oddity(s) ==
  {o \in {"crowded", "again"} :
     \/ o = "crowded" /\ inside
     \/ o = "again" /\ written[s] # Missing}

Line == loadPc = "read" /\ lines < MaxLines /\ lines' = lines + 1

(* A header.  Only an empty line ends a section for parserBasicCfg: one    *)
(* that follows at once is taken for a pair of the section before it.      *)
Header(s) ==
  /\ Line
  /\ IF type = "Basic" /\ inside THEN UNCHANGED <<inside, key, mpVal>>
     ELSE key' = s /\ mpVal' = Missing /\ inside' = (type = "Basic")
  /\ held' = inside
  /\ head' = s /\ odd' = odd \cup Oddity(s)
  /\ UNCHANGED <<type, others, loadPc, mp, cameraUser, written>>

Pair(r) ==
  /\ Line
  /\ IF type = "Basic"
     THEN /\ mpVal' = IF inside THEN Inserted(mpVal, BasicValue(r)) ELSE mpVal
          /\ UNCHANGED mp
     ELSE /\ mp' = IF key \notin Known THEN mp
                   ELSE setCfg(key, PairValue(mp[key], NetValue(r)))
          /\ UNCHANGED mpVal
  /\ written' = IF head # "" /\ (written[head] = Missing \/ type = "Model")
                THEN [written EXCEPT ![head] = r] ELSE written
  /\ held' = inside
  /\ odd' = odd \cup {o \in {"split"} : head # "" /\ type = "Basic" /\ ~inside}
  /\ UNCHANGED <<type, others, loadPc, inside, key, cameraUser, head>>

(* A line that starts with #: all readers pass over it.                    *)
Comment ==
  /\ Line /\ held' = inside
  /\ UNCHANGED <<type, others, loadPc, inside, key, mpVal, mp, cameraUser, head,
                 written, odd>>

(* An empty line, which ends parserBasicCfg's section.                     *)
Empty ==
  /\ Line
  /\ inside' = FALSE /\ held' = FALSE
  /\ mp' = IF inside THEN setCfg(key, mpVal) ELSE mp
  /\ UNCHANGED <<type, others, loadPc, key, mpVal, cameraUser, head, written, odd>>

(* The file ends, without a newline, in a line of a section: getline then  *)
(* leaves temp as it is, and parserBasicCfg takes it again and again.      *)
EndsInLine ==
  /\ loadPc = "read" /\ type = "Basic" /\ held
  /\ loadPc' = "hung"
  /\ UNCHANGED <<type, others, lines, inside, held, key, mpVal, mp, cameraUser,
                 head, written, odd>>

(* Mutant: as many characters are left as the value has but one. *)
Unquoted_One(v) == SubSeq(v, 2, Len(v))

(* substr(1, size() - 2): of a single character nothing is left.           *)
Unquoted(v) == SubSeq(v, 2, Len(v) - 1)

(* Mutant: the program checks only that the key is there. *)
Incomplete_Key(v) == others # "all" \/ v = Missing

(* Common::initCfg and NetDetect's constructor end the process: the empty  *)
(* string of a missing key has no first part and no first character, a map *)
(* no value at() a missing key; a section without a line is no layer.      *)
Incomplete(v) ==
  IF type = "Model" THEN others # (IF v = Missing THEN "none" ELSE "all")
                    ELSE others # "all" \/ v = Missing \/ v = <<>>

(* Everywhere else the end of the file is an empty line to getline.  Then  *)
(* Common::initCfg, or the constructor for the network's file.             *)
initCfg ==
  /\ loadPc = "read"
  /\ mp' = IF inside THEN setCfg(key, mpVal) ELSE mp
  /\ inside' = FALSE /\ held' = FALSE
  /\ loadPc' = IF Incomplete(mp'["needed"]) THEN "dead" ELSE "loaded"
  /\ cameraUser' = IF type = "Net" /\ loadPc' = "loaded"
                   THEN Unquoted(mp'["needed"]) ELSE cameraUser
  /\ UNCHANGED <<type, others, lines, key, mpVal, head, written, odd>>

LoadNext ==
  \/ \E s \in Sections : Header(s)
  \/ \E r \in Pairs : Pair(r)
  \/ Comment \/ Empty \/ EndsInLine \/ initCfg
LoadSpec == LoadInit /\ [][LoadNext]_loadVars

-----------------------------------------------------------------------------
(* The value a reader sees: what stands before a comment and its blanks.   *)
Seen(r) ==
  LET v    == IF Has(Hash, r) THEN Upto(Hash, r) ELSE r
      last == CHOOSE n \in 0 .. Len(v) :
                /\ \A i \in n + 1 .. Len(v) : v[i] = Blank
                /\ n > 0 => v[n] # Blank
  IN  SubSeq(v, 1, last)

(* Lines on which the readers are right: no blank in the value; and for    *)
(* fservo.cfg a comment with a blank before it, or with none at all, or no *)
(* comment and no blank at the end.                                        *)
Plain(r) ==
  /\ ~Has(Blank, Seen(r))
  /\ type = "Basic" =>
       ~Has(Blank, r) \/ (Has(Hash, r) /\ Has(Blank, Upto(Hash, r)))

(* Each plain line reaches the parameter of the section it stands in.  Of  *)
(* the lines of a key the first counts in fservo.cfg and net.cfg, the last *)
(* in the network's file.  For these two headers, empty lines and pairs    *)
(* come as they like; fservo.cfg needs an empty line after each section    *)
(* and nowhere else, and no section twice (fileManager.cpp:138).           *)
ValuesAsWritten ==
  loadPc = "loaded" /\ (type = "Basic" => odd = {}) =>
    \A s \in Known :
      \/ written[s] = Missing /\ mp[s] = Missing
      \/ written[s] # Missing /\ (Plain(written[s]) => mp[s] = Seen(written[s]))

(* The process comes through a file exactly if all is there that it needs: *)
(* a missing line, or one with nothing but a comment, ends it by an        *)
(* exception (common.cpp:83, :86, :115-117), a yolo layer without one of   *)
(* its keys too (yoloDetect.cpp:205), one without any is none.  Only       *)
(* fservo.cfg can keep it reading for ever, in a section's last line       *)
(* (fileManager.cpp:138).                                                  *)
LivesIfComplete ==
  LET w    == written["needed"]
      text == IF type = "Net" THEN rmStrSpace(Seen(w)) ELSE Seen(w)
  IN  /\ loadPc = "hung" => type = "Basic" /\ head # ""
      /\ loadPc \in {"loaded", "dead"}
           /\ (type = "Basic" => odd = {} /\ (w # Missing => Plain(w))) =>
         (loadPc = "loaded" <=>
            \/ others = "all" /\ w # Missing /\ (type # "Model" => text # <<>>)
            \/ others = "none" /\ w = Missing /\ type = "Model")

(* The camera's user is what stands between the quotes (common.cpp:115).   *)
UserFromItsQuotes ==
  LET w == rmStrSpace(Seen(written["needed"])) IN
  type = "Net" /\ loadPc = "loaded" /\ Len(w) > 1 /\ w[1] = "q" /\ Last(w) = "q" =>
    cameraUser = SubSeq(w, 2, Len(w) - 1)

(* What the program works with is what the files say (fileManager.cpp,     *)
(* common.cpp), for lines as the files have them.                          *)
ConfigAsWritten == ValuesAsWritten /\ LivesIfComplete /\ UserFromItsQuotes
=============================================================================
