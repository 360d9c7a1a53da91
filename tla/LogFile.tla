------------------------------- MODULE LogFile -------------------------------
(***************************************************************************)
(* The append-only log the engine keeps on disk, and the routines that     *)
(* write and parse its lines (Engine::log_line, read_line, read_key_value, *)
(* read_num).  A line is                                                   *)
(*      key.size (8B)  value.size (8B)  key  value      for a put,         *)
(*      key.size (8B)  -1 (8B)          key             for a remove.      *)
(*                                                                         *)
(* Bytes are abstracted to what the engine tells apart: a file is its      *)
(* length plus, for every byte offset at which a line was started, the     *)
(* line and how many of its bytes reached the file.  Offsets and lengths   *)
(* are exact byte counts; parsing at an offset where no line starts, or    *)
(* across a torn line, has an unspecified outcome.                         *)
(***************************************************************************)
EXTENDS Integers

CONSTANTS Keys,      \* keys, as their rank in std::string order ("" is 0)
          Values,    \* values
          NoVal,     \* "no value": the value field of a remove line
          KSize,     \* key.size() of every key, in bytes
          VSize,     \* value.size() of every value, in bytes
          Word       \* sizeof(size_t)

ASSUME KeysAssumption  == Keys \subseteq Nat
ASSUME NoValAssumption == NoVal \notin Values
ASSUME SizeAssumption  ==
    /\ Word \in Nat \ {0}
    /\ KSize \in [Keys -> Nat]
    /\ VSize \in [Values -> Nat]

-----------------------------------------------------------------------------
(* Lines *)

PutRec(k, v) == [op |-> "put", key |-> k, val |-> v]
RmRec(k)     == [op |-> "rm",  key |-> k, val |-> NoVal]

Records == {PutRec(k, v) : k \in Keys, v \in Values} \cup {RmRec(k) : k \in Keys}

HeaderSize == 2 * Word

\* Bytes of a line: both size words, the key and, for a put, the value.
Size(r) == HeaderSize + KSize[r.key]
                      + (IF r.op = "put" THEN VSize[r.val] ELSE 0)

-----------------------------------------------------------------------------
(* Files *)

Entry == [rec : Records, got : Nat]

IsFile(f) ==
    /\ f.len \in Nat
    /\ DOMAIN f.at \subseteq Nat
    /\ \A o \in DOMAIN f.at : f.at[o] \in Entry

NoLines   == [o \in {} |-> {}]
EmptyFile == [len |-> 0, at |-> NoLines]
NoFile    == [len |-> -1, at |-> NoLines]    \* directory: no such file

\* The first n bytes of file f.
Truncate(f, n) ==
    [len |-> n,
     at  |-> [o \in {x \in DOMAIN f.at : x < n} |->
                 [f.at[o] EXCEPT !.got = IF o + @ > n THEN n - o ELSE @]]]

\* log_line on a file opened for appending: n bytes of line r reach the end of
\* the file (n < Size(r) only when the process dies inside the write).
AppendRec(f, r, n) ==
    [len |-> f.len + n,
     at  |-> [o \in DOMAIN f.at \cup {f.len} |->
                 IF o = f.len THEN [rec |-> r, got |-> n] ELSE f.at[o]]]

\* A whole line starts at offset o.
HasRec(f, o) == /\ o \in DOMAIN f.at
                /\ f.at[o].got = Size(f.at[o].rec)

-----------------------------------------------------------------------------
(* Parsing *)

Fail == [op |-> "fail"]   \* read_key_value returns -1: the file ends early
Junk == [op |-> "junk"]   \* bytes of unrelated lines taken for a line

\* What parsing at offset o may yield.  A torn line ends inside its size
\* words, or these are intact and announce more bytes than the file has: the
\* parser hits the end of the file.  Where no line starts the two words are
\* arbitrary.
ReadKeyValue(f, o) ==
    IF o >= f.len              THEN {Fail}
    ELSE IF o \notin DOMAIN f.at THEN {Fail, Junk}
    ELSE IF HasRec(f, o)       THEN {f.at[o].rec}
    ELSE IF o + Size(f.at[o].rec) > f.len THEN {Fail}
    ELSE {Junk}
=============================================================================
