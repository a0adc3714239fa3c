------------------------------ MODULE UserData ------------------------------
(***************************************************************************)
(* How the commands of the provider get into the bootstrap data: for a VM  *)
(* by cutting the text open after the first "runcmd:"                      *)
(* (appendToUserDataCloudConfig), for a bare metal server by parsing it    *)
(* (PrependCloudConfigRunCmds). Both are compared with how cloud-init      *)
(* reads a document, for every document of up to MaxLines lines.           *)
(***************************************************************************)
EXTENDS Naturals, Sequences, FiniteSets, SequencesExt

CONSTANTS
    Cmds,       \* the commands of the provider, in order
    MaxLines    \* bound on the length of a document

VARIABLE doc    \* the bootstrap data, line by line

ASSUME MaxLinesAssumption == MaxLines \in Nat

-----------------------------------------------------------------------------
(* Lines. Each ends in a newline, and all but a blank one have more than    *)
(* six characters. Of the indentation they keep what YAML needs: the items  *)
(* of one list have the same.                                               *)

(* The header, or a line that begins with it and goes on with blanks or a   *)
(* comment. "#cloud-config-archive", which begins with it too, is left out. *)
Header == "#cloud-config"
Blank == ""
Skipped == {Blank, "## template: jinja"}
List == "runcmd:"            \* the key, its commands are the items below
Scalar == "runcmd: x"        \* the key with something that is no list
Files == "write_files:"
Keys == {List, Scalar, Files}
Item == "  - item"           \* a command or a file, two spaces in
Shifted == "- item"          \* the same, indented by something else
Mention == "  - item runcmd: x"    \* one that mentions "runcmd:"
Items == {Item, Shifted, Mention}
Torn == "torn"               \* part of a line that was cut
Failed == <<"failed">>       \* no document: an error, or a panic

(* There are commands, two spaces in, and none looks like another kind of   *)
(* line.                                                                    *)
ASSUME CmdsAssumption ==
    /\ Cmds \in Seq(STRING)
    /\ Cmds # <<>>
    /\ \A n \in DOMAIN Cmds :
         Cmds[n] \notin Keys \cup Skipped \cup {Header, Shifted, Torn}

HasRunCmd(line) == line \in {List, Scalar, Mention}

(* The key whose item line i of d is.                                       *)
Section(d, i) ==
    LET before == {k \in 1..i : d[k] \in Keys}
    IN  IF before = {} THEN "" ELSE d[CHOOSE k \in before : \A j \in before : j <= k]

(* How cloud-init reads a document: after the header, what is under a key.  *)
IsCloudConfig(d) ==
    \E h \in DOMAIN d : d[h] = Header /\ \A i \in 1..(h - 1) : d[i] \in Skipped

ItemsOf(d, key) ==
    {i \in DOMAIN d : d[i] \notin Keys \cup Skipped /\ Section(d, i) = key}

(* The elements of a set of numbers in order.                               *)
Rank(S, i) == Cardinality({j \in S : j <= i})
Ordered(S) == [n \in 1..Cardinality(S) |-> CHOOSE i \in S : Rank(S, i) = n]

Under(d, key) ==
    LET items == Ordered(ItemsOf(d, key))
    IN  IF IsCloudConfig(d) THEN [n \in DOMAIN items |-> d[items[n]]] ELSE <<>>

(* What the lines of a list say, and that they are one list to YAML.        *)
Content(line) == IF line = Shifted THEN Item ELSE line
Contents(s) == [n \in DOMAIN s |-> Content(s[n])]

Aligned(s) == \/ \A n \in DOMAIN s : s[n] = Shifted
              \/ \A n \in DOMAIN s : s[n] # Shifted

(* The documents a bootstrap provider hands over: a cloud-config with each  *)
(* key once and well-formed lists, or something else, such as a script.     *)
WellFormed(d) ==
    LET h == SelectInSeq(d, LAMBDA line : line \notin Skipped)
        keys == {k \in DOMAIN d : d[k] \in Keys} IN
    h # 0 => \/ /\ d[h] = Header
                /\ \A i \in (h + 1)..Len(d) :
                     \/ d[i] \in Keys \cup {Blank}
                     \/ d[i] \in Items /\ Section(d, i) \in {List, Files}
                /\ \A j, k \in keys :
                     j # k => (d[j] = Files) # (d[k] = Files)
                /\ \A key \in {List, Files} : Aligned(Under(d, key))
             \/ /\ d[h] = "#!/bin/sh"
                /\ \A i \in (h + 1)..Len(d) : d[i] \in Items

-----------------------------------------------------------------------------
(* The two functions.                                                       *)

(* Mutant: each command is put before the ones that are already there.      *)
appendReversed(d, cmds) ==
    LET at == SelectInSeq(d, HasRunCmd)
    IN  IF at = 0 THEN Failed
        ELSE SubSeq(d, 1, at) \o Reverse(cmds) \o SubSeq(d, at + 1, Len(d))

(* The text is cut after the first "runcmd:", wherever that is, and the     *)
(* commands go in two spaces from the margin, whatever the list does; what  *)
(* is left of the line is joined to the last one. Without a "runcmd:" it    *)
(* is cut after -1 + 7 characters: in the first line that is not blank, or  *)
(* after the sixth blank one; a shorter text is a slice out of range.       *)
appendToUserDataCloudConfig(d, cmds) ==
    LET found == SelectInSeq(d, HasRunCmd)
        first == SelectInSeq(d, LAMBDA line : line # Blank)
        at    == IF found # 0 THEN found ELSE first
        cut   == IF d[at] = List THEN <<List>> \o cmds
                 ELSE <<IF d[at] = Scalar THEN List ELSE Torn>> \o Front(cmds) \o <<Torn>>
        last  == IF Len(d) = 6 \/ d[7] = Blank THEN cmds[Len(cmds)] ELSE Torn
    IN  IF found # 0 \/ first \in 1..6
        THEN SubSeq(d, 1, at - 1) \o cut \o SubSeq(d, at + 1, Len(d))
        ELSE IF Len(d) < 6 THEN Failed
        ELSE SubSeq(d, 1, 6) \o <<Blank>> \o Front(cmds) \o <<last>> \o SubSeq(d, 8, Len(d))

(* Mutant: the header is expected on the first line.                        *)
splitFirstLine(d) == IF d # <<>> /\ d[1] = Header THEN 1 ELSE 0

(* splitCloudConfigHeader: the line of the header, 0 when there is none.    *)
splitCloudConfigHeader(d) ==
    LET h == SelectInSeq(d, LAMBDA line : line \notin Skipped)
    IN  IF h # 0 /\ d[h] = Header THEN h ELSE 0

(* An empty body is taken for a document that is no cloud-config. The       *)
(* document is written anew with its keys in order and one indentation.     *)
PrependCloudConfigRunCmds(d, cmds) ==
    LET h == splitCloudConfigHeader(d) IN
    IF cmds = <<>> \/ h \in {0, Len(d)} THEN d
    ELSE IF \E i \in DOMAIN d : d[i] = Scalar THEN Failed
    ELSE SubSeq(d, 1, h) \o <<List>> \o cmds \o Contents(Under(d, List))
         \o (IF \E i \in DOMAIN d : d[i] = Files
             THEN <<Files>> \o Contents(Under(d, Files)) ELSE <<>>)

-----------------------------------------------------------------------------
(* Documents grow line by line.                                             *)

Init == doc = <<>>

AddLine ==
    /\ Len(doc) < MaxLines
    /\ \E line \in Skipped \cup Keys \cup Items \cup {Header, "#!/bin/sh"} :
        doc' = Append(doc, line)
    /\ WellFormed(doc')

Next == AddLine

Spec == Init /\ [][Next]_doc

-----------------------------------------------------------------------------
(* Properties *)

(* In out the commands run first, and the rest of d is as it was.           *)
RunsFirst(d, out) ==
    /\ Contents(Under(out, List)) = Cmds \o Contents(Under(d, List))
    /\ Contents(Under(out, Files)) = Contents(Under(d, Files))
    /\ \A key \in {List, Files} : Aligned(Under(out, key))

(* A cloud-config with nothing after its header.                            *)
Empty(d) == d # <<>> /\ d[Len(d)] = Header

(* What a bare metal server is given runs the provider's commands first and *)
(* loses nothing, with or without a template line, runcmd list or files,    *)
(* and however its lists are indented; a runcmd that is no list is an       *)
(* error, and what is no cloud-config is passed on as it is. So is, against *)
(* the comment on PrependCloudConfigRunCmds, a cloud-config that ends with  *)
(* its header: see CloudConfigGetsCommands.                                 *)
BareMetalRunsFirst ==
    LET out == PrependCloudConfigRunCmds(doc, Cmds) IN
    IF ~IsCloudConfig(doc) \/ Empty(doc) THEN out = doc
    ELSE IF \E i \in DOMAIN doc : doc[i] = Scalar THEN out = Failed
    ELSE IsCloudConfig(out) /\ RunsFirst(doc, out)

(* Only what is no cloud-config is returned unchanged; in every other       *)
(* document, one with a runcmd that is no list aside, the commands are      *)
(* inserted, "creating the list if it does not exist": what the comment on  *)
(* PrependCloudConfigRunCmds says.                                          *)
CloudConfigGetsCommands ==
    LET out == PrependCloudConfigRunCmds(doc, Cmds) IN
    IF ~IsCloudConfig(doc) THEN out = doc
    ELSE (\E i \in DOMAIN doc : doc[i] = Scalar) \/ RunsFirst(doc, out)

(* What a VM is given runs the provider's commands first and loses nothing  *)
(* exactly when the first "runcmd:" of the text is the key of the list and  *)
(* no item of the list is indented by other than two spaces: a missing      *)
(* runcmd, one that is no list, a file before it that mentions "runcmd:" or *)
(* a list at another depth breaks the document.                             *)
InstanceRunsFirst ==
    LET first == SelectInSeq(doc, HasRunCmd) IN
    IsCloudConfig(doc) =>
        (RunsFirst(doc, appendToUserDataCloudConfig(doc, Cmds))
            <=> /\ first # 0 /\ doc[first] = List
                /\ \A i \in ItemsOf(doc, List) : doc[i] # Shifted)
=============================================================================
