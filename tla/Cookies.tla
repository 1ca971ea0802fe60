------------------------------ MODULE Cookies ------------------------------
(***************************************************************************)
(* Typed cookies (packages/cookie/src): stores of one or several releases  *)
(* of a site get and set the cookies of a browser, whose pages are open at *)
(* the same time.  With document.cookie a store reads and writes the jar   *)
(* of the browser; with the other adapters it reads what the request       *)
(* carried, and what it writes arrives with the response, or never.        *)
(*                                                                         *)
(* Names are of characters that encodeURIComponent leaves alone: others    *)
(* are sent encoded and not decoded, and never found again.                *)
(***************************************************************************)
EXTENDS Naturals, Sequences
LOCAL INSTANCE SequencesExt

CONSTANTS
    Tabs,
    RootPath, DeepPath,        \* pages, by the default path of their cookies: /, and a deeper one
    NoPath,             \* an option that is not given
    Objects,            \* the values that are not text
    Absent, BlankText   \* undefined, and ""

VARIABLES
    bakery,     \* [adapter, stores], stores: release -> [defs, prune], defs: key ->
                \*  [name, by, accepts, default, onMismatch], by: "schema", "parser" or "none"
    jar,        \* of the browser: [name, path, text]
    tab         \* per tab: what the page's request carried, what its response writes
cookieVars == <<bakery, jar, tab>>

Closed == [page |-> NoPath]
InDocument == bakery.adapter = "document"
Json(object) == <<"json", object>>
Serialized(value) == IF value \in Objects THEN Json(value) ELSE value

(* document.cookie, and the Cookie header of a request: the cookies of the path
   of the page and of those above it, longer paths first. *)
InScope(cookies, page) == {c \in cookies : c.path \in {RootPath, page}}
(* parseCookies: of two with a name the last one stays. *)
Named(cookies, name) == {c \in cookies : c.name = name}
ParseCookies(cookies) ==
    [name \in {c.name : c \in cookies} |->
        LET same == Named(cookies, name)
        IN  (CHOOSE c \in same : c.path = RootPath \/ \A d \in same : d.path # RootPath).text]
TextOf(raw, name) == IF name \in DOMAIN raw THEN raw[name] ELSE Absent

(* The response to a page, and document.cookie: Max-Age=0 takes out the cookie of
   that name and path.  Next writes / where no path is given. *)
PathOf(w, page) ==
    IF w.path # NoPath THEN w.path ELSE IF bakery.adapter = "next" THEN RootPath ELSE page
Written(cookies, w, page) ==
    {c \in cookies : ~(c.name = w.name /\ c.path = PathOf(w, page))} \cup
    (IF w.expires THEN {} ELSE {[name |-> w.name, path |-> PathOf(w, page), text |-> w.text]})
AllWritten(cookies, writes, page) ==
    FoldLeft(LAMBDA j, w : Written(j, w, page), cookies, writes)

CookieWrite(name, text, path) == [name |-> name, text |-> text, path |-> path, expires |-> FALSE]
Deletion(name, path) == [name |-> name, text |-> BlankText, path |-> path, expires |-> TRUE]

-----------------------------------------------------------------------------
(* A typed cookie: the schema sees the text, and nothing for an empty one; the
   parser is the application's, and takes the text for JSON. *)
DefaultOf(def) == IF def.by = "none" /\ def.default = Absent THEN BlankText ELSE def.default
SchemaTakes(def, text) ==
    def.by = "schema" => (IF text = BlankText THEN Absent ELSE text) \in def.accepts
ParseValue(def, text) ==
    LET objects == {o \in Objects : text = Json(o)}
    IN  IF ~SchemaTakes(def, text) \/ text = Absent \/ (def.by = "schema" /\ text = BlankText)
        THEN DefaultOf(def)
        ELSE IF def.by = "parser"
        THEN IF objects = {} THEN DefaultOf(def) ELSE CHOOSE o \in objects : TRUE
        ELSE text
ParseRemoves(def, text) == ~SchemaTakes(def, text) /\ def.onMismatch = "remove"

StoreOf(t) == bakery.stores[tab[t].by]
KeysOf(t) == DOMAIN StoreOf(t).defs
Def(t, key) == StoreOf(t).defs[key]

(* adapter.read: the cookies of the browser now, of the request, or of the request
   with what Next was told to set since. *)
DocumentRead(t) == ParseCookies(InScope(jar, tab[t].page))
HeaderRead(t) == ParseCookies(tab[t].cookies)
NextRead(t) ==
    LET set(raw, w) == [n \in DOMAIN raw \cup {w.name} |-> IF n = w.name THEN w.text ELSE raw[n]]
    IN  FoldLeft(set, HeaderRead(t), tab[t].writes)
AdapterRead(t) ==
    IF InDocument THEN DocumentRead(t)
    ELSE IF bakery.adapter = "headers" THEN HeaderRead(t) ELSE NextRead(t)

(* adapter.write *)
DocumentWrites(t, writes, values) ==
    /\ jar' = AllWritten(jar, writes, tab[t].page)
    /\ tab' = [tab EXCEPT ![t].values = values]
HeaderWrites(t, writes, values) ==
    /\ tab' = [tab EXCEPT ![t].values = values, ![t].writes = @ \o writes]
    /\ UNCHANGED jar
AdapterWrites(t, writes, values) ==
    IF InDocument THEN DocumentWrites(t, writes, values) ELSE HeaderWrites(t, writes, values)

(* get: what onMismatch removes, with no path, and what is tracked by no cookie of
   the store. *)
TrackedKeysBug(t) == KeysOf(t)    \* the keys of the store, not the names
TrackedNames(t) == {Def(t, key).name : key \in KeysOf(t)}
Removed(t, raw) ==
    {Def(t, k).name : k \in {k \in KeysOf(t) : ParseRemoves(Def(t, k), TextOf(raw, Def(t, k).name))}}
Pruned(t, raw) ==
    IF StoreOf(t).prune = NoPath THEN {} ELSE DOMAIN raw \ TrackedNames(t)
Deletions(names, path) == SetToSeq({Deletion(n, path) : n \in names})
GetCookies(t) ==
    LET raw == AdapterRead(t) IN
    /\ tab[t] # Closed
    /\ AdapterWrites(t,
           Deletions(Removed(t, raw), NoPath) \o Deletions(Pruned(t, raw), StoreOf(t).prune),
           [key \in KeysOf(t) |-> ParseValue(Def(t, key), TextOf(raw, Def(t, key).name))])
    /\ UNCHANGED bakery

SetCookie(t, key, value, path) ==
    /\ tab[t] # Closed /\ key \in KeysOf(t)
    /\ AdapterWrites(t, <<CookieWrite(Def(t, key).name, Serialized(value), path)>>, <<>>)
    /\ UNCHANGED bakery

-----------------------------------------------------------------------------
(* The browser opens a page, which one of the releases serves, *)
Visit(t, page, release) ==
    /\ tab[t] = Closed
    /\ tab' = [tab EXCEPT ![t] = [page |-> page, by |-> release, values |-> <<>>,
                                  cookies |-> InScope(jar, page), writes |-> <<>>]]
    /\ UNCHANGED <<bakery, jar>>
(* and takes its response, or never receives it. *)
Respond(t) ==
    /\ tab[t] # Closed
    /\ jar' = AllWritten(jar, tab[t].writes, tab[t].page)
    /\ tab' = [tab EXCEPT ![t] = Closed]
    /\ UNCHANGED bakery
ResponseLost(t) ==
    /\ tab[t] # Closed /\ tab[t].writes # <<>>
    /\ tab' = [tab EXCEPT ![t] = Closed]
    /\ UNCHANGED <<bakery, jar>>

-----------------------------------------------------------------------------
(***************************************************************************)
(* A visitor opens pages, one after the other or at the same time.  The    *)
(* history is a map of names to values, not to texts: a response replaces  *)
(* the values its page has set, and a page knows those of its request.     *)
(***************************************************************************)
CONSTANTS CookiePlans

VARIABLES
    bplan, bsteps,
    lore,               \* name -> its value
    known, facts,       \* per tab: the values of its request; those it has set since
    owed                \* per tab: key -> what the last get must have answered
cookieGhosts == <<lore, known, facts, owed>>
cookieClientVars == <<cookieVars, bplan, bsteps, cookieGhosts>>

NoBakery == [service |-> "none"]
CookiesInit ==
    /\ bakery = NoBakery /\ jar = {} /\ tab = [t \in Tabs |-> Closed]
    /\ bplan = NoBakery /\ bsteps = 0 /\ lore = <<>>
    /\ known = [t \in Tabs |-> <<>>] /\ facts = known /\ owed = known
CookiesDeploy ==
    /\ bplan = NoBakery
    /\ \E p \in CookiePlans :
           /\ bplan' = p /\ bakery' = p.setup
           /\ jar' = {[name |-> n, path |-> RootPath, text |-> p.jar[n]] :
                          n \in {n \in DOMAIN p.jar : p.jar[n] # Absent}}
           /\ lore' = p.jar
    /\ UNCHANGED <<tab, bsteps, known, facts, owed>>

Over(values, newer) == [n \in DOMAIN values |-> IF n \in DOMAIN newer THEN newer[n] ELSE values[n]]
(* What a page can know of the cookies. *)
Known(t) ==
    IF InDocument THEN lore
    ELSE IF bakery.adapter = "headers" THEN known[t] ELSE Over(known[t], facts[t])
(* What it has set counts now, or with its response. *)
Finds(t, newer) ==
    IF InDocument THEN lore' = Over(lore, newer) /\ UNCHANGED <<known, facts>>
    ELSE /\ facts' = [facts EXCEPT ![t] = Over([n \in DOMAIN @ \cup DOMAIN newer |->
                                                IF n \in DOMAIN @ THEN @[n] ELSE newer[n]], newer)]
         /\ UNCHANGED <<lore, known>>

Acceptable(def, value) ==
    IF def.by = "schema" THEN value \in def.accepts
    ELSE def.by = "parser" => value \in Objects
Meant(def, value) == IF value = Absent \/ ~Acceptable(def, value) THEN DefaultOf(def) ELSE value
(* A get takes out what its store does not track, and what its schema rejects, were
   it that there is none: where the path of the cookies is the one meant by none. *)
Unwanted(t, n) ==
    LET defs == {Def(t, key) : key \in {k \in KeysOf(t) : Def(t, k).name = n}}
        here == [path |-> NoPath]
    IN  \/ defs = {} /\ StoreOf(t).prune # NoPath /\ Known(t)[n] # Absent
        \/ /\ PathOf(here, tab[t].page) = PathOf([path |-> bplan.path], tab[t].page)
           /\ \E def \in defs : def.onMismatch = "remove" /\ ~Acceptable(def, Known(t)[n])

OpensPage(t, page, release) ==
    /\ Visit(t, page, release)
    /\ known' = [known EXCEPT ![t] = lore] /\ facts' = [facts EXCEPT ![t] = <<>>]
    /\ owed' = [owed EXCEPT ![t] = <<>>]
    /\ UNCHANGED lore
GetsCookies(t) ==
    /\ GetCookies(t)
    /\ owed' = [owed EXCEPT ![t] =
           [key \in KeysOf(t) |-> Meant(Def(t, key), Known(t)[Def(t, key).name])]]
    /\ Finds(t, [n \in {n \in DOMAIN lore : Unwanted(t, n)} |-> Absent])
SetsCookie(t, key, value) ==
    /\ SetCookie(t, key, value, bplan.path)
    /\ owed' = [owed EXCEPT ![t] = <<>>]
    /\ Finds(t, [n \in {Def(t, key).name} |-> value])
Leaves(t) ==
    /\ \/ Respond(t) /\ lore' = Over(lore, facts[t])
       \/ ResponseLost(t) /\ UNCHANGED lore
    /\ known' = [known EXCEPT ![t] = <<>>] /\ facts' = [facts EXCEPT ![t] = <<>>]
    /\ owed' = [owed EXCEPT ![t] = <<>>]

CookiesNext ==
    \/ CookiesDeploy
    \/ /\ bplan # NoBakery /\ UNCHANGED bplan
       /\ \E t \in Tabs :
              \/ /\ bsteps < bplan.steps /\ bsteps' = bsteps + 1
                 /\ \/ \E page \in bplan.pages, r \in DOMAIN bakery.stores : OpensPage(t, page, r)
                    \/ GetsCookies(t)
                    \/ \E set \in bplan.sets : SetsCookie(t, set[1], set[2])
              \/ Leaves(t) /\ UNCHANGED bsteps

(* A store answers the values that were set, whatever they are turned into on
   their way: of each cookie what the response that arrived last before the
   request has set, by any page, release or key of the same name, or the default
   where it has set none that the store of this release takes. *)
CookieKept == \A t \in Tabs : owed[t] # <<>> => tab[t].values = owed[t]
=============================================================================
