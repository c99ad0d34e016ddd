------------------------------- MODULE ArgsList -------------------------------
(***************************************************************************)
(* Args (args.go): the list of keys and values of a query string or a form *)
(* under its operations; ByteText has what the operations do.              *)
(***************************************************************************)
EXTENDS Integers, Sequences, SequencesExt, ByteText

CONSTANTS
  ArgBytes,     \* the bytes keys and values are made of
  ArgTexts,     \* texts that are parsed
  MaxArgs,      \* bound: the length of the list
  MaxArgOps     \* bound: operations on it

VARIABLES
  args,         \* a.args: [key, value, noValue]
  other,        \* the Args that CopyTo fills
  argOps

argsVars == <<args, other, argOps>>

-----------------------------------------------------------------------------
ArgKeys == BoundedSeq(ArgBytes, 1)

ArgsTypeOK ==
  /\ Len(args) <= MaxArgs /\ Len(other) <= MaxArgs
  /\ \A i \in DOMAIN args : args[i].noValue => args[i].value = <<>>
  /\ argOps \in 0..MaxArgOps

ArgsInit ==
  /\ args = <<>>
  /\ other = <<>>
  /\ argOps = 0

CountOp == argOps < MaxArgOps /\ argOps' = argOps + 1

ArgsOp(list) ==
  /\ CountOp
  /\ Len(list) <= MaxArgs
  /\ args' = list
  /\ UNCHANGED other

AddArg == \E k, v \in ArgKeys : ArgsOp(Append(args, KV(k, v)))
AddNoValue == \E k \in ArgKeys : ArgsOp(Append(args, KeyOnly(k)))
SetValue == \E k, v \in ArgKeys : ArgsOp(SetArg(args, KV(k, v)))
SetNoValue == \E k \in ArgKeys : ArgsOp(SetArg(args, KeyOnly(k)))
DelArg == \E k \in ArgKeys : ArgsOp(DelAllArgs(args, k))
ParseText ==
  /\ CountOp
  /\ \E s \in ArgTexts : Len(ParseArgs(s)) <= MaxArgs /\ args' = ParseArgs(s)
  /\ UNCHANGED other

\* CopyTo; Reset and ReleaseArgs empty the list.
CopyArgs ==
  /\ CountOp
  /\ other' = args
  /\ UNCHANGED args
ResetArgs == ArgsOp(<<>>)

ArgsNext ==
  \/ AddArg \/ AddNoValue \/ SetValue \/ SetNoValue \/ DelArg \/ ParseText \/ CopyArgs \/ ResetArgs

ArgsSpec == ArgsInit /\ [][ArgsNext]_argsVars
-----------------------------------------------------------------------------
(* Properties *)

\* ArgsTypeOK, and: the query string that AppendBytes writes is parsed into the same list, in
\* the same order, whatever bytes the keys and values have; only an argument without key and
\* value is lost.
ArgsRoundTrip ==
  /\ ArgsTypeOK
  /\ ParseArgs(QueryString(args)) = SelectSeq(args, LAMBDA e : e.key # <<>> \/ e.value # <<>>)
===============================================================================
