---------------------------- MODULE ParamBinding ----------------------------
(***************************************************************************)
(* How the raw parameters of a request become the typed keyword arguments  *)
(* of a handler: the binder of api/utils/param_binding.py, which plans a   *)
(* handler's conversions once and refuses what does not fit, and the       *)
(* wrapper of api/utils/type_conversions.py that it replaced, which passed *)
(* on what it could not convert.                                           *)
(*                                                                         *)
(* A raw text is the sequence of its comma-separated parts.  A value is a  *)
(* record: [t |-> "text"] from the URL, [t |-> "list"] for a key that is   *)
(* repeated in the query string, [t |-> "object"] for what the dispatcher  *)
(* injects, and the type's name once converted.  A hint is the sequence of *)
(* the members of a union.                                                 *)
(***************************************************************************)
EXTENDS Integers, Sequences, SequencesExt

UniqueOn == {"card", "printing", "artwork"}
PreferOrder == {"default", "oldest", "newest", "usd_low", "usd_high", "promo"}
CardOrdering == {"cmc", "cubecobra", "edhrec", "name", "power", "rarity", "toughness", "usd"}
ResponseShape == {"rows", "columnar"}
SortDirection == {"asc", "desc"}

Enums == [UniqueOn |-> UniqueOn, PreferOrder |-> PreferOrder, CardOrdering |-> CardOrdering,
          ResponseShape |-> ResponseShape, SortDirection |-> SortDirection]

Integral == {"-1", "0", "1", "2", "100"}
Truthy == {"true", "1", "yes", "on", "t"}

Text(parts) == [t |-> "text", v |-> parts]
List(parts) == [t |-> "list", v |-> parts]
Object(name) == [t |-> "object", v |-> <<name>>]
Typed(type, parts) == [t |-> type, v |-> parts]
Refused == [t |-> "refused", v |-> <<>>]

NonEmpty(part) == part # ""
NonEmptyParts(text) == SelectSeq(text, NonEmpty)

(* What one converter makes of a text: the type's constructor, an enum's   *)
(* lookup, or the split of a comma-separated list that drops empty parts.  *)
Convert(type, text) ==
  CASE type \in DOMAIN Enums ->
         IF Len(text) = 1 /\ text[1] \in Enums[type] THEN Typed(type, text) ELSE Refused
    [] type = "int" ->
         IF Len(text) = 1 /\ text[1] \in Integral THEN Typed("int", text) ELSE Refused
    [] type = "bool" -> Typed("bool", <<IF Len(text) = 1 /\ text[1] \in Truthy THEN "True" ELSE "False">>)
    [] type = "Sequence[str]" -> Typed("Sequence[str]", NonEmptyParts(text))
    [] type = "str" -> Text(text)

Converters == DOMAIN Enums \cup {"int", "bool", "str", "Sequence[str]"}

(* A parameter of a handler: whether a path segment may fill it, and       *)
(* whether it has a default.                                               *)
Parameter(name, hint, positional, hasDefault) ==
  [name |-> name, hint |-> hint, positional |-> positional, default |-> hasDefault]
Default(name) == [t |-> "default", v |-> <<name>>]

IsPositional(p) == p.positional
PositionalNames(handler) ==
  LET plan == SelectSeq(handler.params, IsPositional) IN [i \in DOMAIN plan |-> plan[i].name]
Named(handler) == {handler.params[i].name : i \in DOMAIN handler.params}
Param(handler, name) == CHOOSE p \in ToSet(handler.params) : p.name = name

Bound(args) == [error |-> "none", args |-> args]
Raised(error) == [error |-> error, args |-> <<>>]
TypeError == Raised("TypeError")
ParamCoercionError == Raised("ParamCoercionError")

ZipNames(names, args) ==
  [n \in {names[i] : i \in DOMAIN args} |-> args[CHOOSE i \in DOMAIN args : names[i] = n]]
Merge(over, under) == [n \in DOMAIN over \cup DOMAIN under |-> IF n \in DOMAIN over THEN over[n] ELSE under[n]]
Only(f, names) == [n \in DOMAIN f \cap names |-> f[n]]
Defaults(handler) == [n \in {m \in Named(handler) : Param(handler, m).default} |-> Default(n)]
Texts(supplied) == {n \in DOMAIN supplied : supplied[n].t = "text"}

-----------------------------------------------------------------------------
(* param_binding.ParamBinder                                               *)

UnwrapOptional(hint) ==
  LET members == {i \in DOMAIN hint : hint[i] # "None"}
  IN IF \E i \in members : members = {i} THEN <<hint[CHOOSE i \in members : TRUE]>> ELSE hint
ConverterFor(hint) ==
  LET unwrapped == UnwrapOptional(hint)
  IN IF Len(unwrapped) = 1 /\ unwrapped[1] \in Converters THEN unwrapped[1] ELSE "None"

BindOne(handler, name, value) ==
  LET converter == ConverterFor(Param(handler, name).hint)
  IN IF value.t # "text" THEN value
     ELSE IF converter = "None" THEN Refused ELSE Convert(converter, value.v)

(* Mutant of Bind: a keyword replaces the path segment it collides with,   *)
(* and a text that cannot be converted is handed on.                       *)
BindLoosely(handler, args, kwargs) ==
  LET positional == PositionalNames(handler)
      supplied == Merge(kwargs, ZipNames(positional, args))
      known == [n \in DOMAIN supplied \cap Named(handler) |->
                  LET v == BindOne(handler, n, supplied[n]) IN IF v = Refused THEN supplied[n] ELSE v]
      passed == Only(supplied, DOMAIN supplied \ (Named(handler) \cup Texts(supplied)))
  IN IF Len(args) > Len(positional) THEN TypeError
     ELSE Bound(Merge(Merge(known, passed), Defaults(handler)))

Bind(handler, args, kwargs) ==
  LET positional == PositionalNames(handler)
      supplied == Merge(kwargs, ZipNames(positional, args))
      known == [n \in DOMAIN supplied \cap Named(handler) |-> BindOne(handler, n, supplied[n])]
      passed == Only(supplied, DOMAIN supplied \ (Named(handler) \cup Texts(supplied)))
  IN IF Len(args) > Len(positional) THEN TypeError
     ELSE IF {positional[i] : i \in DOMAIN args} \cap DOMAIN kwargs # {} THEN TypeError
     ELSE IF \E n \in DOMAIN known : known[n] = Refused THEN ParamCoercionError
     ELSE Bound(Merge(Merge(known, passed), Defaults(handler)))

-----------------------------------------------------------------------------
(* type_conversions.make_type_converting_wrapper                           *)

ConvertStringToType(text, hint) ==
  LET tried == [i \in DOMAIN hint |-> IF hint[i] \in Converters THEN Convert(hint[i], text) ELSE Refused]
      converts == {i \in DOMAIN hint : tried[i] # Refused}
  IN IF converts = {} THEN Text(text) ELSE tried[CHOOSE i \in converts : \A j \in converts : i <= j]

TypeConvertingWrapper(handler, args, kwargs) ==
  LET positional == PositionalNames(handler)
      raw == Merge(kwargs, ZipNames(positional, args))
      texts == Texts(raw)
      converted == [n \in texts \cap Named(handler) |-> ConvertStringToType(raw[n].v, Param(handler, n).hint)]
      nonTexts == Only(raw, DOMAIN raw \ texts)
  IN IF Len(args) > Len(positional) THEN TypeError
     ELSE IF Named(handler) = {} THEN Bound(kwargs)
     ELSE Bound(Merge(nonTexts, Merge(converted, Defaults(handler))))

(* Python's own call: a name the handler does not take, or a parameter     *)
(* left without a value, is a TypeError.                                   *)
Called(handler, bound) ==
  IF bound.error # "none" THEN bound
  ELSE IF DOMAIN bound.args \subseteq Named(handler) \/ handler.varkw
       THEN IF Named(handler) \subseteq DOMAIN bound.args THEN bound ELSE TypeError
  ELSE TypeError
=============================================================================
