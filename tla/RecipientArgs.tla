---------------------------- MODULE RecipientArgs ----------------------------
(***************************************************************************)
(* From the arguments of store recipients add, and of store init, to the   *)
(* lines of recipients.txt (internal/cmd/store/store.go; AddRecipient in   *)
(* internal/infra/store/crypto.go).  Recipients has what these lines do.   *)
(*                                                                         *)
(* A line, and a key, is a sequence of words; one of Refusable has neither *)
(* prefix of a key.  An argument is [ok, keys]: the one key it is, or      *)
(* those of the lines of the file it names, which may not be readable.     *)
(*                                                                         *)
(* A recipients.txt is [lines, tail]: the lines that Recipients returns,   *)
(* and what it ends with if it has no newline at its end, as an editor may *)
(* leave it: nothing, the last of these lines ("key"), or a comment.       *)
(***************************************************************************)
EXTENDS Naturals, Sequences, SequencesExt

CONSTANT Refusable

Tails == {"none", "key", "comment"}

\* What a run of AddRecipient leaves: the file, how many keys were new to it, whether it
\* goes on.
Added(file, added, ok) == [lines |-> file.lines, tail |-> file.tail, added |-> added, ok |-> ok]

\* A key and a newline written after whatever the file ends with: what has no newline is
\* one line with the key.
Written(file, key) ==
  [lines |-> CASE file.tail = "none" -> Append(file.lines, key)
               [] file.tail = "key" -> [file.lines EXCEPT ![Len(file.lines)] = @ \o key]
               [] file.tail = "comment" -> file.lines,
   tail |-> "none"]

\* Written unless it is there; refused unless it looks like one.
AddRecipient(r, key) ==
  IF ~r.ok THEN r
  ELSE IF key \in Refusable THEN [r EXCEPT !.ok = FALSE]
  ELSE IF key \in ToSet(r.lines) THEN r
  ELSE Added(Written(r, key), r.added + 1, TRUE)

\* Keys are added one after the other, and the first that is refused ends it,
AddKeys(r, keys) ==
  LET after[n \in 0..Len(keys)] == IF n = 0 THEN r ELSE AddRecipient(after[n - 1], keys[n])
  IN after[Len(keys)]
\* or the first file that cannot be read.
AddArgument(r, arg) == AddKeys([r EXCEPT !.ok = r.ok /\ arg.ok], arg.keys)

\* Wrong on purpose: the next argument goes on where one was refused.
addRecipientsMutant(file, args) ==
  LET after[n \in 0..Len(args)] ==
        IF n = 0 THEN Added(file, 0, TRUE)
        ELSE AddArgument([after[n - 1] EXCEPT !.ok = TRUE], args[n])
  IN after[Len(args)]
\* From the file there is to what adding all the arguments leaves.
addRecipients(file, args) ==
  LET after[n \in 0..Len(args)] ==
        IF n = 0 THEN Added(file, 0, TRUE) ELSE AddArgument(after[n - 1], args[n])
  IN after[Len(args)]

\* store init puts the user's own public key, if there is one, before the others.
seedRecipients(file, own, extra) == addRecipients(file, own \o extra)

-----------------------------------------------------------------------------
(* Properties. *)

Named(args) == UNION {ToSet(args[i].keys) : i \in DOMAIN args}
Readable(args) == \A i \in DOMAIN args : args[i].ok
Acceptable(args) == Readable(args) /\ Named(args) \cap Refusable = {}

\* The arguments with what is wrong of them put right: another key for one that is
\* refused, a file that can be read.
Corrected(args, right) ==
  [i \in DOMAIN args |->
     [ok |-> TRUE,
      keys |-> [j \in DOMAIN args[i].keys |->
                  IF args[i].keys[j] \in Refusable THEN right ELSE args[i].keys[j]]]]

\* No recipients.txt; and the last line of one that has no newline.
NoFile == [lines |-> <<>>, tail |-> "none"]
Unended(file) == IF file.tail = "key" THEN {Len(file.lines)} ELSE {}
LastOf(file) == {file.lines[i] : i \in Unended(file)}

\* Whoever could read stays listed, at the place it had, and a failure tells of an
\* argument that is wrong (store.go:90, crypto.go:79).  A last line without a newline is
\* the exception: the first new key is written on it and counted (crypto.go:101-107);
\* these two may be gone from the list, no other is, and adding again lists all that were
\* named.  In a file that ends with a newline nobody comes to be listed twice, a success
\* has listed all that were named, and a failure leaves those before it listed, so that
\* adding again with that put right lists the same as having added it right at first.
ListGrows(file, args, right) ==
  LET r == addRecipients(file, args)
      corrected == Corrected(args, right) IN
  /\ r.ok <=> Acceptable(args)
  /\ \A i \in DOMAIN file.lines \ Unended(file) :
       i \in DOMAIN r.lines /\ r.lines[i] = file.lines[i]
  /\ IF r.added > 0 /\ file.tail # "none" THEN r.added = Len(r.lines) - Len(file.lines) + 1
     ELSE r.added = Len(r.lines) - Len(file.lines)
  /\ r.ok => /\ \A x, y \in Named(args) \ (ToSet(r.lines) \cup LastOf(file)) : x = y
             /\ Named(args) \subseteq ToSet(addRecipients(r, args).lines)
  /\ file.tail = "none" =>
       /\ IsInjective(file.lines) => IsInjective(r.lines)
       /\ ToSet(r.lines) \cap Refusable = ToSet(file.lines) \cap Refusable
       /\ r.ok => ToSet(r.lines) = ToSet(file.lines) \cup Named(args)
       /\ addRecipients(r, corrected).lines = addRecipients(file, corrected).lines

\* Who makes a store can read what goes into it: a user with a public key is its first
\* reader, whoever else is named and whether or not they can be added (store.go:146).
OwnKeyFirst(own, extra) ==
  LET r == seedRecipients(NoFile, own, extra) IN
  own # <<>> /\ own[1].ok /\ own[1].keys # <<>> /\ own[1].keys[1] \notin Refusable =>
    r.lines # <<>> /\ r.lines[1] = own[1].keys[1]
=============================================================================
