--------------------------------- MODULE Loader ---------------------------------
(***************************************************************************)
(* load_fontaine_config (config/loader.py): from YAML files, a profile,    *)
(* YAMI_SET and --set to a configuration, or a refusal.                    *)
(*                                                                         *)
(* A mapping is a function from places to values; a place is the path of   *)
(* keys to a value, from the section inwards. What no dataclass has a      *)
(* field for is refused when the sections are bound.                       *)
(***************************************************************************)
EXTENDS Schema, TLC

CONSTANT Refused   \* what loading gives when it raises ConfigError

NoFile == "no file"
NoProfile == "no profile"

Empty == <<>>   \* the mapping of nothing

-----------------------------------------------------------------------------
(* Names of one value: blocks that are moved, and the aliases of a model.  *)

Folded ==
  <<"optimizer", "type">> :> <<"training", "optimizer">>
  @@ <<"optimizer", "learning_rate">> :> <<"training", "learning_rate">>
  @@ <<"optimizer", "eps">> :> <<"training", "adam_eps">>
  @@ <<"optimizer", "weight_decay">> :> <<"training", "weight_decay">>
  @@ <<"optimizer", "beta1">> :> <<"training", "adam_beta1">>
  @@ <<"optimizer", "beta2">> :> <<"training", "adam_beta2">>
  @@ <<"scheduler", "type">> :> <<"training", "lr_scheduler">>
  @@ <<"scheduler", "warmup_steps">> :> <<"training", "warmup_steps">>
  @@ <<"scheduler", "min_lr_ratio">> :> <<"training", "min_learning_rate_ratio">>

Flattened ==
  <<"model", "head_dim">> :> <<"model", "explicit_head_dim">>
  @@ <<"model", "attention", "type">> :> <<"model", "attention_type">>
  @@ <<"model", "attention", "backend">> :> <<"model", "attention_backend">>
  @@ <<"model", "router", "type">> :> <<"model", "router_type">>
  @@ <<"model", "router", "load_balancing", "enabled">> :> <<"model", "load_balancing_enabled">>
  @@ <<"model", "router", "load_balancing", "coefficient">> :> <<"model", "moe_aux_loss_coef">>

Renamed(table, place) == IF place \in DOMAIN table THEN table[place] ELSE place

\* Two names of one value, with different values.
Conflicts(table, tree) ==
  \E p, q \in DOMAIN tree : Renamed(table, p) = Renamed(table, q) /\ tree[p] # tree[q]

Rename(table, tree) ==
  LET moved == DOMAIN tree \cap DOMAIN table
  IN [p \in DOMAIN tree \ moved |-> tree[p]]
     @@ [q \in {table[p] : p \in moved} |-> tree[CHOOSE p \in moved : table[p] = q]]

-----------------------------------------------------------------------------
(* Layers.                                                                 *)

Sections == DOMAIN Defaults

Sectioned(tree) == \A place \in DOMAIN tree : place[1] \in Sections

\* merge_sections is shallow: a block replaces the block of the same name.
SlotOf(place) == SubSeq(place, 1, 2)

Merge(tree, later) ==
  later @@ [p \in {p \in DOMAIN tree : \A q \in DOMAIN later : SlotOf(q) # SlotOf(p)} |-> tree[p]]

Inherit(parent, own) ==
  [sections |-> Merge(parent.sections, own.sections), profiles |-> own.profiles @@ parent.profiles,
   profile |-> IF own.profile # NoProfile THEN own.profile ELSE parent.profile]

Nothing == [sections |-> Empty, profiles |-> Empty, profile |-> NoProfile]

\* What a file says itself, with its folded sections renamed.
Own(file) ==
  IF Conflicts(Folded, file.sections) \/ ~Sectioned(Rename(Folded, file.sections)) THEN Refused
  ELSE [sections |-> Rename(Folded, file.sections), profiles |-> file.profiles, profile |-> file.profile]

Over(parent, own) == IF parent = Refused \/ own = Refused THEN Refused ELSE Inherit(parent, own)

\* _prepare_file: a file on the disk, what it extends first; the stack has the
\* files that wait for it.
Prepare(disk, asked_for) ==
  LET prepared[name \in DOMAIN disk, stack \in SUBSET DOMAIN disk] ==
        Over(IF disk[name].extends = NoFile THEN Nothing
             ELSE IF disk[name].extends \notin DOMAIN disk \ (stack \cup {name}) THEN Refused
             ELSE prepared[disk[name].extends, stack \cup {name}],
             Own(disk[name]))
  IN IF asked_for \notin DOMAIN disk THEN Refused ELSE prepared[asked_for, {}]

\* The files of the command line in turn; a later one may select a profile.
AddFile(disk, so_far, name) == Over(so_far, Prepare(disk, name))

\* _apply_profile
WithProfile(loaded, asked) ==
  LET name == IF asked # NoProfile THEN asked ELSE loaded.profile
      body == loaded.profiles[name]
  IN IF loaded = Refused THEN Refused
     ELSE IF name = NoProfile THEN loaded.sections
     ELSE IF \/ name \notin DOMAIN loaded.profiles
             \/ Conflicts(Folded, body) \/ ~Sectioned(Rename(Folded, body))
     THEN Refused ELSE Merge(loaded.sections, Rename(Folded, body))

\* apply_overrides sets places one by one, in blocks it makes when needed.
Override(tree, sets) ==
  IF tree = Refused THEN Refused
  ELSE FoldLeft(LAMBDA t, set : (set.place :> set.value) @@ t, tree, sets)

\* dataclass_from_dict
Section(tree, name) ==
  LET given == {k \in DOMAIN Defaults[name] : <<name, k>> \in DOMAIN tree}
  IN [k \in given |-> tree[<<name, k>>]] @@ Defaults[name]

\* Sections no dataclass is bound to are left aside.
Bound(tree) ==
  IF tree = Refused THEN Refused
  ELSE IF \E p \in DOMAIN tree : p[1] \in Sections /\ (Len(p) # 2 \/ p[2] \notin DOMAIN Defaults[p[1]])
  THEN Refused
  ELSE [model |-> Section(tree, "model"), tokenizer |-> Section(tree, "tokenizer"),
        data |-> Section(tree, "data"), training |-> Section(tree, "training"),
        evaluation |-> Section(tree, "evaluation"), inference |-> Section(tree, "inference"),
        distributed |-> Section(tree, "distributed")]

Flatten(tree) ==
  IF tree = Refused \/ Conflicts(Flattened, tree) THEN Refused ELSE Rename(Flattened, tree)

\* Mutant: the environment is laid over the command line.
Overrides_EnvironmentLast(ask) == ask.set \o ask.env

\* The environment first, then the command line.
Overrides(ask) == ask.env \o ask.set

\* The configuration of a command line before it is validated.
Assembled(ask) ==
  Bound(Flatten(Override(
    WithProfile(FoldLeft(LAMBDA so_far, name : AddFile(ask.disk, so_far, name), Nothing, ask.files),
                ask.profile), Overrides(ask))))

Validated(config) == IF config # Refused /\ Fits(config) THEN config ELSE Refused

Load(ask) == Validated(Assembled(ask))
================================================================================
