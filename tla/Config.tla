-------------------------------- MODULE Config --------------------------------
(***************************************************************************)
(* The configuration (src-rust/config.rs): what a file says becomes what   *)
(* the addon runs with by normalize, and either is refused by validate or  *)
(* resolved for each request into the settings of its user.                *)
(*                                                                         *)
(* The settings of a user, or of [defaults], are a record of its key, its  *)
(* lists and its options; an option a user does not set is Unset.          *)
(***************************************************************************)
EXTENDS Naturals, Sequences, SequencesExt

CONSTANTS
  Trim(_),   \* str::trim
  Lower(_)   \* str::to_ascii_lowercase

Unset == "unset"
Lists == {"indexers", "servers", "languages"}
OptionNames == {"min_gbit_per_hour", "max_gbit_per_hour", "exclude_regex",
                "validate_structure", "validate_availability", "streams_per_resolution"}

NoSettings == [key |-> "", lists |-> [l \in Lists |-> <<>>], options |-> [o \in OptionNames |-> Unset]]
Empty == [requireAuth |-> FALSE, defaults |-> NoSettings, users |-> [n \in {} |-> NoSettings]]
-----------------------------------------------------------------------------
(* Normalisation.                                                          *)

Codes == <<"en", "es", "ja", "fr", "de", "it", "pt", "ru", "zh", "ko", "nl", "pl",
           "cs", "sk", "sv", "no", "da", "fi", "hu", "tr", "ar", "he", "hi">>
LanguageNames == <<"english", "spanish", "japanese", "french", "german", "italian",
           "portuguese", "russian", "chinese", "korean", "dutch", "polish", "czech", "slovak",
           "swedish", "norwegian", "danish", "finnish", "hungarian", "turkish", "arabic",
           "hebrew", "hindi">>

\* An ISO code becomes the English name, anything else stays, in lower case.
NormalizeLanguage(text) ==
  LET lower == Lower(Trim(text))
  IN  IF \E i \in DOMAIN Codes : Codes[i] = lower
      THEN LanguageNames[CHOOSE i \in DOMAIN Codes : Codes[i] = lower]
      ELSE lower

\* The first of each value, in order, without the empty one.
Distinct(texts) ==
  LET OneMore(kept, t) == IF t = "" \/ Contains(kept, t) THEN kept ELSE Append(kept, t)
  IN  FoldLeft(OneMore, <<>>, texts)

\* The rows of indexers that have both their fields.
TrimmedIndexers(rows) ==
  LET Complete(row) == row.url # "" /\ row.apiKey # ""
  IN  SelectSeq([i \in DOMAIN rows |-> [url |-> Trim(rows[i].url), apiKey |-> Trim(rows[i].apiKey)]],
                Complete)

TrimmedServers(rows) ==
  LET Named(row) == row # ""
  IN  SelectSeq([i \in DOMAIN rows |-> Trim(rows[i])], Named)

\* UserConfig::normalize; a blank regular expression is none.
NormalizeSettings(s) ==
  [key     |-> Trim(s.key),
   lists   |-> [indexers  |-> TrimmedIndexers(s.lists.indexers),
                servers   |-> TrimmedServers(s.lists.servers),
                languages |-> Distinct([i \in DOMAIN s.lists.languages |->
                                          NormalizeLanguage(s.lists.languages[i])])],
   options |-> [s.options EXCEPT !.exclude_regex =
                  IF @ = Unset \/ Trim(@) = "" THEN Unset ELSE Trim(@)]]

\* AddonConfig::normalize.  Of users whose names differ only in blanks one is
\* left: which, depends on the order a HashMap is walked in.
Normalized(cfg) ==
  LET names  == {Trim(n) : n \in DOMAIN cfg.users} \ {""}
      Kept   == {pick \in [names -> DOMAIN cfg.users] : \A n \in names : Trim(pick[n]) = n}
  IN  {[requireAuth |-> cfg.requireAuth,
        defaults    |-> NormalizeSettings(cfg.defaults),
        users       |-> [n \in names |-> NormalizeSettings(cfg.users[pick[n]])]] : pick \in Kept}
-----------------------------------------------------------------------------
(* Validation and resolution.                                              *)

\* Slip: users may share a key.
ValidShared(cfg) ==
  /\ cfg.defaults.lists.indexers # <<>>
  /\ cfg.defaults.lists.servers # <<>>
  /\ ~ (cfg.requireAuth /\ DOMAIN cfg.users = {})
  /\ \A n \in DOMAIN cfg.users : cfg.users[n].key # ""

Valid(cfg) ==
  /\ cfg.defaults.lists.indexers # <<>>
  /\ cfg.defaults.lists.servers # <<>>
  /\ ~ (cfg.requireAuth /\ DOMAIN cfg.users = {})
  /\ \A n \in DOMAIN cfg.users : cfg.users[n].key # ""
  /\ \A n, m \in DOMAIN cfg.users : cfg.users[n].key = cfg.users[m].key => n = m

\* Slip: only the flag gates the routes.
RequiresAuthFlag(cfg) == cfg.requireAuth

RequiresAuth(cfg) == cfg.requireAuth \/ DOMAIN cfg.users # {}

\* The users a token may be found to be of (user_for_key finds any of them).
UsersForKey(cfg, token) ==
  IF token = "" THEN {} ELSE {n \in DOMAIN cfg.users : cfg.users[n].key = token}

\* merged_with: a list that is not empty replaces the base's as a whole, an
\* option that is set replaces the base's; the key stays the base's.
Merged(base, override) ==
  [key     |-> base.key,
   lists   |-> [l \in Lists |-> IF override.lists[l] = <<>>
                                THEN base.lists[l] ELSE override.lists[l]],
   options |-> [o \in OptionNames |-> IF override.options[o] = Unset
                                      THEN base.options[o] ELSE override.options[o]]]

\* The settings a request runs with; without a user, or for an unknown one, the
\* defaults.
Resolve(cfg, name) ==
  IF name \in DOMAIN cfg.users THEN Merged(cfg.defaults, cfg.users[name]) ELSE cfg.defaults
=============================================================================
