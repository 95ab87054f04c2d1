--------------------------- MODULE CommandPolicy ---------------------------
(***************************************************************************)
(* Which batches run_commands accepts (src/prisma_sdwan_mcp/cli/policy.py).*)
(* A command is what validate_command looks at: whether it is a string, is *)
(* free of blanks at its ends and of control characters, keeps its words   *)
(* one blank apart, and its first word and the kinds of the others.        *)
(***************************************************************************)
EXTENDS Naturals, Sequences

\* Kinds of words: one that _SAFE_ARGUMENT matches, the word grep, host:port with
\* a port in or out of range, args="-c 1..10", one that only _GREP_ARGUMENT
\* matches, a flag of grep, a pipe, and anything else
Words == {"word", "grep", "endpoint", "endpoint_range", "count", "pattern", "flag", "pipe", "other"}
SafeArgument == {"word", "grep", "endpoint", "endpoint_range"}
GrepArgument == SafeArgument \cup {"pattern"}

Commands ==
  [string : BOOLEAN, trimmed : BOOLEAN, printable : BOOLEAN, spaced : BOOLEAN,
   root : {"dump", "inspect", "ping", "tcpping", "dig", "other"}, words : Seq(Words)]

All(words, first, last, kinds) == \A i \in first..last : words[i] \in kinds

\* Nothing, or | grep, flags, and at least one argument, after the n-th word
GrepFilter(words, n) ==
  \/ n = Len(words)
  \/ /\ n + 2 < Len(words)
     /\ words[n + 1] = "pipe" /\ words[n + 2] = "grep"
     /\ \E k \in (n + 2)..(Len(words) - 1) :
          /\ All(words, n + 3, k, {"flag"})
          /\ All(words, k + 1, Len(words), GrepArgument)

\* ION_READ_ONLY_PATTERNS: a family with arguments and perhaps a filter
ReadOnly(c) ==
  /\ c.root \in {"dump", "inspect"}
  /\ \E n \in 1..Len(c.words) :
       All(c.words, 1, n, SafeArgument) /\ GrepFilter(c.words, n)

\* ION_DIAGNOSTIC_PATTERNS: an exact form
Diagnostic(c) ==
  /\ c.spaced
  /\ LET n == Len(c.words)
     IN \/ /\ c.root = "ping"
           /\ n = 2 \/ (n = 3 /\ c.words[3] = "count")
           /\ All(c.words, 1, 2, SafeArgument)
        \/ /\ c.root = "tcpping" /\ n = 2
           /\ c.words[1] \in SafeArgument /\ c.words[2] \in {"endpoint", "endpoint_range"}
        \/ c.root = "dig" /\ n = 3 /\ All(c.words, 1, 3, SafeArgument)

\* validate_command: a form that matches decides, its port included
Approved(c) ==
  /\ c.string /\ c.trimmed /\ c.printable
  /\ \/ ReadOnly(c)
     \/ Diagnostic(c) /\ (c.root = "tcpping" => c.words[2] = "endpoint")

\* validate_batch, of a list
BatchApproved(commands, limit) ==
  /\ commands # <<>> /\ Len(commands) <= limit
  /\ \A i \in DOMAIN commands : Approved(commands[i])
=============================================================================
