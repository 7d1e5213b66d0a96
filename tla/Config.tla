------------------------------- MODULE Config -------------------------------
(***************************************************************************)
(* Loading the configuration (src/config.rs): defaults, the YAML file, the *)
(* environment variables, and the checks at the end.  The settings whose   *)
(* values other parts rely on are modelled, the rest being handled alike.  *)
(* A text that does not parse, or a variable that is not Unicode, is       *)
(* "bad".  A value that may be missing is a set of at most one element, a  *)
(* variable's value is such a set too, and a call that fails returns {}.   *)
(***************************************************************************)
EXTENDS Lists

CONSTANTS DefaultRange,                   \* of passive.port_range
          DEFAULT_BACKEND_PASSIVE_PORTS,
          DefaultRefresh                  \* of backend_source.refresh_secs

PortRange == [start : Nat, end : Nat]

ASSUME ConfigAssumption ==
  /\ DefaultRange \in PortRange /\ DEFAULT_BACKEND_PASSIVE_PORTS \in PortRange
  /\ DEFAULT_BACKEND_PASSIVE_PORTS.start <= DEFAULT_BACKEND_PASSIVE_PORTS.end
  /\ DefaultRefresh \in Nat

-----------------------------------------------------------------------------
is_empty(range) == range.end < range.start

len(range) == range.end - range.start + 1

(* parse_first_last of two texts, each a port or not.                        *)
parse_first_last(first, last) ==
  {range \in {[start |-> a, end |-> b] : a \in first, b \in last} : range.start <= range.end}

(* deserialize_port_range: the text form or the map form.                    *)
deserialize_port_range(form) ==
  LET ranges == IF form.text THEN parse_first_last(form.first, form.last)
                ELSE {[start |-> a, end |-> b] : a \in form.first, b \in form.last}
  IN  {range \in ranges : ~is_empty(range)}

(* All of the results, if each of the sequence succeeded.                    *)
Collect(results) ==
  IF \A k \in DOMAIN results : results[k] # {}
  THEN {[k \in DOMAIN results |-> CHOOSE x \in results[k] : TRUE]}
  ELSE {}

(* parse_backends: an entry has an address that parses or not, and perhaps a *)
(* range; blank entries are left out before.                                 *)
parse_backends(entries) ==
  Collect([k \in DOMAIN entries |->
             LET ranges == IF entries[k].range = {} THEN {DEFAULT_BACKEND_PASSIVE_PORTS}
                           ELSE UNION {parse_first_last(r.first, r.last) : r \in entries[k].range}
             IN  {[passive_ports |-> r] : r \in {r \in ranges : entries[k].address}}])

(* parse_name_list: blanks are ignored.                                      *)
parse_name_list(names) == names \ {"blank"}

-----------------------------------------------------------------------------
Default ==
  [port_range |-> DefaultRange, backends |-> <<>>,
   tls |-> "off", ca_file |-> {}, server_name |-> {},
   mode |-> "off", refresh_secs |-> DefaultRefresh, include |-> {}, exclude |-> {}]

(* The file, or none: `sets` are its settings, over the defaults; the        *)
(* backends' ranges are parsed.                                              *)
FromFile(file) ==
  {[s \in DOMAIN Default |->
      IF s = "backends" THEN [k \in DOMAIN ranges |-> [passive_ports |-> ranges[k]]]
      ELSE IF s \in DOMAIN file.sets THEN file.sets[s]
      ELSE Default[s]]
   : ranges \in Collect([k \in DOMAIN file.backends |-> deserialize_port_range(file.backends[k])])}

Overlay(value, default) == IF value = {} THEN default ELSE CHOOSE x \in value : TRUE

(* apply_env_overrides: the first variable that is bad ends it with an error.*)
apply_env_overrides(config, env) ==
  IF env.bad THEN {}
  ELSE LET backends == IF env.backends = {} THEN {config.backends}
                       ELSE UNION {parse_backends(list) : list \in env.backends}
       IN  {[config EXCEPT
               !.port_range = [start |-> Overlay(env.start, config.port_range.start),
                               end   |-> Overlay(env.end, config.port_range.end)],
               !.backends = list,
               !.tls = Overlay(env.tls, @),
               !.ca_file = IF env.ca_file = {} THEN @ ELSE env.ca_file,
               !.server_name = IF env.server_name = {} THEN @ ELSE env.server_name,
               !.mode = Overlay(env.mode, @),
               !.refresh_secs = Overlay(env.refresh_secs, @),
               !.include = IF env.include = {} THEN @ ELSE UNION {parse_name_list(n) : n \in env.include},
               !.exclude = IF env.exclude = {} THEN @ ELSE UNION {parse_name_list(n) : n \in env.exclude}]
            : list \in backends}

(* validate: is_file of a CA file is part of its value.                      *)
validate(config) ==
  /\ config.backends # <<>>
  /\ config.port_range.start < config.port_range.end
  /\ config.tls = "explicit" =>
       config.ca_file \subseteq {"file"} /\ "empty" \notin config.server_name
  /\ config.mode = "rotate" => config.refresh_secs # 0 /\ "blank" \notin config.include \cup config.exclude

load_validating_file(file, env) ==
  UNION {apply_env_overrides(c, env) : c \in {c \in FromFile(file) : validate(c)}}

(* Config::load.                                                             *)
load(file, env) ==
  {c \in UNION {apply_env_overrides(f, env) : f \in FromFile(file)} : validate(c)}

-----------------------------------------------------------------------------
(* What a file and an environment hold: ports and seconds that parse are     *)
(* numbers, a CA file exists or not, and a variable has one value at most.   *)
ParsedPorts(texts) == texts.first \subseteq Nat /\ texts.last \subseteq Nat
CaFiles == {"file", "missing"}

IsFile(file) ==
  /\ IsList(file.backends) /\ \A k \in DOMAIN file.backends : ParsedPorts(file.backends[k])
  /\ "backends" \notin DOMAIN file.sets
  /\ "port_range" \in DOMAIN file.sets => file.sets["port_range"] \in PortRange
  /\ "refresh_secs" \in DOMAIN file.sets => file.sets["refresh_secs"] \in Nat
  /\ "ca_file" \in DOMAIN file.sets => file.sets["ca_file"] \subseteq CaFiles

IsEnv(env) ==
  /\ env.start \subseteq Nat /\ env.end \subseteq Nat /\ env.refresh_secs \subseteq Nat
  /\ env.ca_file \subseteq CaFiles
  /\ \A list, other \in env.backends : list = other
  /\ \A list \in env.backends :
       IsList(list) /\ \A k \in DOMAIN list : \A range \in list[k].range : ParsedPorts(range)

(* What a gateway that starts can rely on, whatever the file and the         *)
(* environment hold and however they are mixed: a port pool of two ports at  *)
(* least (PortPool assumes one), a backend to select (Listener), a slot for  *)
(* each source address (Rotator), no range whose length underflows, a        *)
(* refresh that waits, no CA file or server name that cannot be used.        *)
Usable(config) ==
  /\ len(config.port_range) >= 2
  /\ Len(config.backends) >= 1
  /\ \A k \in DOMAIN config.backends : len(config.backends[k].passive_ports) >= 1
  /\ config.mode = "rotate" => config.refresh_secs > 0 /\ "blank" \notin config.include \cup config.exclude
  /\ config.tls = "explicit" => "missing" \notin config.ca_file /\ "empty" \notin config.server_name

(* "environment variables taking highest priority" (config.rs:9): each       *)
(* setting of a configuration that loads is the variable's, or else the      *)
(* file's, or else the default; so a file that is wrong by itself loads if   *)
(* the environment puts it right, and what loads is usable.                  *)
LoadsRight(file, env) ==
  /\ \A c \in load(file, env) :
       /\ Usable(c)
       /\ \A s \in {"tls", "mode", "refresh_secs"} :
            c[s] = Overlay(env[s], IF s \in DOMAIN file.sets THEN file.sets[s] ELSE Default[s])
       /\ env.start # {} => c.port_range.start \in env.start
       /\ env.end # {} => c.port_range.end \in env.end
       /\ \A list \in env.backends : Len(c.backends) = Len(list)
  /\ load(file, env) = {} =>
       \A c \in FromFile(file) : \A d \in apply_env_overrides(c, env) : ~Usable(d)
=============================================================================
