---------------------------- MODULE ConfigResolve ----------------------------
(***************************************************************************)
(* Two ways to resolve a setting from the environment, a file and          *)
(* defaults: loose_resolve and strict_resolve of ops-lab/secrets_lab.py,   *)
(* under every environment a deployment may set.  A raw value is a string; *)
(* what it is worth depends on the type of the setting.                    *)
(***************************************************************************)
EXTENDS Naturals, FiniteSets

CONSTANTS
    Setting,        \* names the program knows
    Stranger,       \* names a deployment may set and the program does not know
    Raw,            \* strings, "" among them
    TypeOf,         \* TYPES
    InFile,         \* FILE_CONFIG: raw values of some settings
    DefaultOf       \* DEFAULTS: values, already typed

ASSUME ConfigAssumption ==
    /\ "" \in Raw /\ Stranger \cap Setting = {}
    /\ TypeOf \in [Setting -> {"float", "str", "bool", "int"}]
    /\ DOMAIN InFile \subseteq Setting /\ \A n \in DOMAIN InFile : InFile[n] \in Raw \ {""}
    /\ DOMAIN DefaultOf = Setting

VARIABLE env    \* the variables that are set

cfgVars == <<env>>

CfgTypeOK == DOMAIN env \subseteq Setting \cup Stranger /\ \A n \in DOMAIN env : env[n] \in Raw

CfgInit == env = <<>>

With(n, raw) == [m \in DOMAIN env \cup {n} |-> IF m = n THEN raw ELSE env[m]]

SetEnv(n, raw) == (n \in DOMAIN env => env[n] # raw) /\ env' = With(n, raw)

UnsetEnv(n) == n \in DOMAIN env /\ env' = [m \in DOMAIN env \ {n} |-> env[m]]

CfgNext == \E n \in Setting \cup Stranger : UnsetEnv(n) \/ \E raw \in Raw : SetEnv(n, raw)

CfgSpec == CfgInit /\ [][CfgNext]_cfgVars

-----------------------------------------------------------------------------
Error == [error |-> TRUE]
Text(raw) == [text |-> raw]                 \* the string itself
Typed(type, raw) == [type |-> type, worth |-> raw]

Numeral == {"0", "1", "30"}
Truth == {"true", "false", "1", "0"}

\* typ(raw), and raw.lower() in ("true", "1")
Parsed(type, raw) ==
    CASE type = "str" -> Text(raw)
      [] type = "bool" -> IF raw \notin Truth THEN Error
                          ELSE Typed("bool", raw \in {"true", "1"})
      [] type \in {"int", "float"} -> IF raw \in Numeral THEN Typed(type, raw) ELSE Error

\* FILE_CONFIG and DEFAULTS are part of the program, and well-typed
ASSUME DeploymentAssumption ==
    /\ \A n \in DOMAIN InFile : Parsed(TypeOf[n], InFile[n]) # Error
    /\ \A n \in Setting : DefaultOf[n] # Error /\ DefaultOf[n] # Text("")

\* env.get(name) or FILE_CONFIG.get(name) or DEFAULTS.get(name)
LooseResolve(n) ==
    IF n \in DOMAIN env /\ env[n] # "" THEN Text(env[n])
    ELSE IF n \in DOMAIN InFile THEN Text(InFile[n])
    ELSE DefaultOf[n]

\* an empty variable taken for one that is not set
Present_NotEmpty(n) == n \in DOMAIN env /\ env[n] # ""

\* if name in env
Present(n) == n \in DOMAIN env

StrictResolve(n) ==
    IF Present(n) THEN IF env[n] = "" THEN Error ELSE Parsed(TypeOf[n], env[n])
    ELSE IF n \in DOMAIN InFile THEN Parsed(TypeOf[n], InFile[n])
    ELSE DefaultOf[n]

\* what bool() makes of a string
Truthy(v) == v = Text("true") \/ v = Text("false") \/ v = Text("0") \/ v = Text("1")

-----------------------------------------------------------------------------
\* Strict resolution is precedence by presence: a variable that is set decides,
\* with its value or with an error, and never lets the file or a default
\* through.  Where it gives a value the loose resolver gives the same text, so
\* they part in three ways only: the loose one falls through an empty variable
\* in silence, passes on text that does not parse, and leaves a flag a string
\* whose truth is not what it says.  Neither reads a variable it does not know.
StrictIsPresence ==
    \A n \in Setting :
       LET strict == StrictResolve(n)
           loose == LooseResolve(n)
       IN /\ n \in DOMAIN env => strict = Error \/ strict = Parsed(TypeOf[n], env[n])
          /\ n \in DOMAIN env /\ env[n] = "" => strict = Error /\ loose # Text("")
          /\ n \notin DOMAIN env => strict # Error
          /\ TypeOf[n] = "str" /\ strict # Error => loose = strict
          /\ strict # Error /\ strict # DefaultOf[n] =>
                \E raw \in Raw : loose = Text(raw) /\ strict = Parsed(TypeOf[n], raw)
          /\ strict = Typed("bool", FALSE) /\ loose # DefaultOf[n] => Truthy(loose)
=============================================================================
