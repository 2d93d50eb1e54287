--------------------------- MODULE TerminalPrompt ---------------------------
(***************************************************************************)
(* Unlocking the SSH identity from a command (internal/infra/crypt/        *)
(* prompt.go, and CheckSSHPassphrase of crypt.go).  A command decrypts     *)
(* several artifacts, one after the other, and each asks the prompt.       *)
(*                                                                         *)
(* answers is what one read after the other gives: "right" or "wrong" for  *)
(* the key, "nothing" when it fails (^D, an askpass program that ends with *)
(* an error).  source is where they are read from, "nowhere" without a     *)
(* terminal or an askpass program; intact is whether the key file can be   *)
(* checked at all.                                                         *)
(***************************************************************************)
EXTENDS Naturals, Sequences

passphraseAttempts == 3

Answers == {"right", "wrong", "nothing"}

\* What a prompt starts from and leaves: the passphrase it remembers, the answers
\* not read yet, what it returned and how often it read.
PromptState(cached, rest, got, reads) ==
  [cached |-> cached, rest |-> rest, got |-> got, reads |-> reads]
FreshPrompt(answers) == PromptState("", answers, "", 0)

\* A passphrase is refused as wrong; any other error of the check ends the attempts.
Rejected(answer, intact) == answer = "wrong" /\ intact

\* The attempts it takes: up to the first answer that is not wrong, or all of them.
Attempts(answers, intact) ==
  CHOOSE n \in 1..passphraseAttempts :
    /\ n = passphraseAttempts \/ ~Rejected(answers[n], intact)
    /\ \A i \in 1..(n - 1) : Rejected(answers[i], intact)

askChecked(source, intact, s) ==
  IF source = "nowhere" THEN [s EXCEPT !.got = "error", !.reads = 0]
  ELSE LET n == Attempts(s.rest, intact)
           last == s.rest[n] IN
       PromptState(s.cached, SubSeq(s.rest, n + 1, Len(s.rest)),
                   IF last = "right" /\ intact THEN last ELSE "error", n)

\* The cache is looked at first, and filled by what the check accepted.
prompt(source, intact, s) ==
  IF s.cached # "" THEN [s EXCEPT !.got = s.cached, !.reads = 0]
  ELSE LET t == askChecked(source, intact, s) IN
       IF t.got = "error" THEN t ELSE [t EXCEPT !.cached = t.got]

\* The states of a command's prompts, from before the first one on.
Prompts(source, intact, answers) ==
  LET s[n \in 0..(Len(answers) \div passphraseAttempts)] ==
        IF n = 0 THEN FreshPrompt(answers) ELSE prompt(source, intact, s[n - 1])
  IN s

-----------------------------------------------------------------------------
(* Properties. *)

\* However a person types: only a passphrase that unlocks the key reaches a decrypt;
\* one that is typed within three tries does, and is not asked for again (prompt.go:
\* 26-30); nobody is asked more often than that, or where nobody can answer; and an
\* answer is never read twice, nor skipped.
TypedOnce(source, intact, answers) ==
  LET s == Prompts(source, intact, answers) IN
  \A n \in DOMAIN s \ {0} :
    /\ s[n].got \in {"right", "error"}
    /\ s[n].reads <= passphraseAttempts
    /\ source = "nowhere" \/ ~intact => s[n].got = "error"
    /\ source = "nowhere" => s[n].reads = 0
    /\ s[n - 1].rest = SubSeq(s[n - 1].rest, 1, s[n].reads) \o s[n].rest
    /\ s[n].got = "right" => \A k \in DOMAIN s : k > n => s[k].got = "right" /\ s[k].reads = 0
    /\ source # "nowhere" /\ intact =>
         (s[n].got = "right" <=>
            \/ s[n - 1].cached # ""
            \/ \E i \in 1..passphraseAttempts :
                 /\ s[n - 1].rest[i] = "right"
                 /\ \A j \in 1..(i - 1) : s[n - 1].rest[j] = "wrong")
=============================================================================
