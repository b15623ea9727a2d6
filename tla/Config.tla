-------------------------------- MODULE Config --------------------------------
(***************************************************************************)
(* What a start of goxo computes from its inputs before it touches the     *)
(* network: the settings proto, the agent definition, goxo.yaml and the    *)
(* environment (main.go, config.go, settings.go, manifest.go), and the     *)
(* configurations of bus, pool and health server made from them            *)
(* (engine/config.go).                                                     *)
(*                                                                         *)
(* The inputs of one start are a record w, a world.  A document is the     *)
(* record of the fields present in it, Unset if there is no such document  *)
(* and Bad if it does not parse.  Text keeps only what the code tells      *)
(* apart: the empty string is Unset, a number or duration that does not    *)
(* parse is Bad, a command is its sequence of words, durations are seconds.*)
(***************************************************************************)
EXTENDS Integers, Sequences, SequencesExt

CONSTANTS Unset, Bad

(* Text that is not there, or is no number, is not taken for a number.     *)
ASSUME ConfigAssumption ==
  /\ Unset # Bad
  /\ Unset \notin Int /\ Bad \notin Int

Failed(x) == x = Bad

(* What a list in a document is parsed to.                                 *)
IsList(s) == Len(s) \in Nat /\ DOMAIN s = 1 .. Len(s)

-----------------------------------------------------------------------------
(* The documents: a field that is absent holds its zero value.             *)

(* f where it is defined, g elsewhere.                                     *)
Over(f, g) ==
  [x \in DOMAIN f \cup DOMAIN g |-> IF x \in DOMAIN f THEN f[x] ELSE g[x]]

Filled(doc, zero) == IF doc \in {Unset, Bad} THEN zero ELSE Over(doc, zero)

Settings(w) ==
  Filled(w.settings,
         [inputs |-> <<>>, args |-> <<>>, host |-> Unset, port |-> 0])

Manifest(w) ==
  Filled(w.manifest, [name |-> Unset, inputs |-> <<>>, args |-> <<>>])

Knobs == {"handler", "fdset", "timeout", "pool", "cap", "grace"}
Numbers == {"timeout", "pool", "cap", "grace"}

Env(w) == Over(w.env, [k \in Knobs \cup {"config", "port"} |-> Unset])

-----------------------------------------------------------------------------
(* goxo.yaml over the defaults, the environment over both.                 *)

Default == [handler |-> <<>>, fdset |-> Unset, timeout |-> 0,
            pool |-> 1, cap |-> 1, grace |-> 10]

(* What counts as absent from the file, field by field.                    *)
Absent(k) ==
  {Unset} \cup (IF k = "handler" THEN {<<>>}
                ELSE IF k \in {"pool", "cap"} THEN {0} ELSE {})

Parse(f) ==
  IF DOMAIN f \subseteq Knobs /\ \A k \in DOMAIN f : ~Failed(f[k])
  THEN [k \in Knobs |->
          IF k \in DOMAIN f /\ f[k] \notin Absent(k) THEN f[k] ELSE Default[k]]
  ELSE Bad

(* A file named by GOXO_CONFIG must exist, the default one need not.       *)
LoadConfig(w) ==
  CASE w.file = Bad -> Bad
    [] w.file = Unset -> IF Env(w).config = Unset THEN Default ELSE Bad
    [] OTHER -> Parse(w.file)

(* Variant: the error of the conversion is not looked at.                  *)
BadIsZero(raw, fallback) ==
  IF raw = Unset THEN fallback ELSE IF Failed(raw) THEN 0 ELSE raw

(* intOr, durationOr: a malformed value is passed over.                    *)
NumberOr(raw, fallback) == IF raw \in {Unset, Bad} THEN fallback ELSE raw

(* envOr, handlerOr: any text that is set wins, a blank command too.       *)
TextOr(raw, fallback) == IF raw = Unset THEN fallback ELSE raw

Params(w) ==
  LET c == Filled(LoadConfig(w), Default)
  IN  [k \in Knobs |-> IF k \in Numbers THEN NumberOr(Env(w)[k], c[k])
                       ELSE TextOr(Env(w)[k], c[k])]

-----------------------------------------------------------------------------
(* The arguments of the handler: definition defaults under settings values.*)

Decode(a) ==
  CASE a.type = "binary" -> <<"bytes", a.value>>
    [] a.type # "binary" /\ Failed(a.value) -> Bad
    [] OTHER -> <<"json", a.value>>

(* out[name] = v, and the bodies of the two loops that do it.              *)
Put(out, name, v) ==
  [x \in DOMAIN out \cup {name} |-> IF x = name THEN v ELSE out[x]]
WithDefault(out, d) == Put(out, d.name, d.value)
WithValue(out, a) == Put(out, a.name, Decode(a))

MergeArgs(defs, over) ==
  IF defs = <<>> /\ over = <<>> THEN Unset
  ELSE IF \E i \in DOMAIN over : Failed(Decode(over[i])) THEN Bad
  ELSE FoldLeft(WithValue, FoldLeft(WithDefault, <<>>, defs), over)

HandlerArgs(w) == MergeArgs(Manifest(w).args, Settings(w).args)

-----------------------------------------------------------------------------
(* What the bus, the pool and the health server are made from.             *)

InSelectors(w) ==
  IF Settings(w).inputs # <<>> THEN Settings(w).inputs ELSE Manifest(w).inputs

(* Variant: the definition's inputs, whatever the settings say.            *)
DefinitionInputs(w) == ToSet(Manifest(w).inputs)

(* The selectors the queue is bound to and those the handlers are told of. *)
BusInputs(w) == ToSet(InSelectors(w))
BriefedInputs(w) == ToSet(InSelectors(w))

AtLeastOne(n) == IF n < 1 THEN 1 ELSE n

(* NewPool.                                                                *)
Capacity(w) == AtLeastOne(Params(w).pool) * AtLeastOne(Params(w).cap)

(* Variants: one unsettled message too many; no 16 bits.                   *)
WindowOneMore(w) == AtLeastOne(Params(w).pool * Params(w).cap) + 1
WindowWide(w) == AtLeastOne(Params(w).pool * Params(w).cap)

(* The product of the raw sizes, at least one, as the 16 bits of           *)
(* basic.qos; 0 is no limit.                                               *)
Window(w) == AtLeastOne(Params(w).pool * Params(w).cap) % 2 ^ 16

(* The engine listens where the settings say, on all addresses and port    *)
(* 5000 if they say nothing.                                               *)
ListenHost(w) == TextOr(Settings(w).host, "0.0.0.0")
ListenPort(w) == IF Settings(w).port = 0 THEN 5000 ELSE Settings(w).port

(* The probe asks 127.0.0.1, at a port that the environment names.  A name *)
(* stands for the address it resolves to, "::" for 0.0.0.0.                *)
ProbePort(w) == TextOr(Env(w).port, 5000)
ProbeReaches(w) ==
  /\ ListenHost(w) \in {"0.0.0.0", "127.0.0.1"}
  /\ ListenPort(w) = ProbePort(w)

(* busConfig and workerConfig, as far as Run goes by them.                 *)
Configured(w) ==
  [inputs |-> BusInputs(w), briefed |-> BriefedInputs(w),
   window |-> Window(w), capacity |-> Capacity(w),
   timeout |-> Params(w).timeout]

(* Everything Run needs before it connects.                                *)
Startable(w) ==
  /\ ~Failed(w.settings) /\ ~Failed(w.manifest) /\ ~Failed(LoadConfig(w))
  /\ w.settings # Unset /\ w.manifest # Unset
  /\ Manifest(w).name # Unset
  /\ Params(w).handler # <<>>
  /\ Params(w).fdset # Unset /\ w.codec
  /\ ~Failed(HandlerArgs(w))
=============================================================================
