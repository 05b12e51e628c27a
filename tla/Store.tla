------------------------------- MODULE Store -------------------------------
(***************************************************************************)
(* The application store, userspace/gui/store/store.c: its catalogue, what *)
(* is installed, reviews and developer accounts.  Sizes are in MB and every*)
(* sum wraps at 4096 of them, 2^32 bytes.  Names, texts, permissions and   *)
(* the page that is shown are left out.  Publishing more than the table    *)
(* holds writes over app_count and the developers behind it: broken, and   *)
(* what the store does after that is not modelled.                         *)
(***************************************************************************)
EXTENDS Integers, Sequences, FiniteSets, SequencesExt

CONSTANTS
  MAX_STORE_APPS, MAX_INSTALLED_APPS, MAX_DEVELOPERS, MAX_REVIEWS,
             \* 128, 64, 64 and 50
  Emails,    \* the addresses that developers register with
  Touched,   \* the places of the catalogue whose applications callers name
  Ratings,   \* the ratings they give
  RESTARTS   \* bound: calls of store_init after the first

ASSUME StoreAssumption ==
  /\ MAX_STORE_APPS \in Nat /\ MAX_INSTALLED_APPS \in Nat /\ MAX_DEVELOPERS \in Nat
  /\ MAX_REVIEWS \in Nat /\ RESTARTS \in Nat

VARIABLES
  store,      \* the store_state_t.  An application's rating is the quotient of
              \* total by votes; given holds its reviews
  store_next, \* store_next_app_id, which store_init leaves alone
  restarts    \* against the bound

store_vars == <<store, store_next, restarts>>

WORD_MB == 4096
NOBODY  == 0         \* current_developer = -1; developers count from 1

(* store_init_default_apps: category, size and ten times the rating.       *)
Catalogue == <<
  <<"web", 95, 45>>, <<"web", 80, 44>>, <<"web", 75, 43>>,
  <<"code", 350, 47>>, <<"code", 120, 45>>, <<"code", 45, 46>>, <<"code", 55, 48>>,
  <<"code", 65, 49>>, <<"social", 180, 46>>, <<"social", 55, 47>>, <<"social", 110, 43>>,
  <<"media", 140, 45>>, <<"media", 45, 48>>, <<"media", 120, 47>>, <<"games", 300, 44>>,
  <<"games", 250, 42>>, <<"games", 200, 45>>, <<"office", 400, 43>>, <<"office", 180, 46>>,
  <<"safety", 95, 48>>, <<"safety", 250, 45>>, <<"tools", 2, 49>>, <<"tools", 250, 45>>,
  <<"photo", 300, 44>>, <<"photo", 450, 47>> >>

ASSUME CatalogueAssumption ==
  MAX_STORE_APPS >= Len(Catalogue) /\ Touched \subseteq DOMAIN Catalogue

(* A new application: the total and the number of votes start alike.       *)
Listed(id, category, size, developer, votes, average) ==
  [id |-> id, category |-> category, size |-> size, developer |-> developer,
   total |-> votes, votes |-> votes, average |-> average,
   installed |-> FALSE, given |-> <<>>]

(* store_add_app.                                                          *)
Added(entry, id) == Listed(id, entry[1], entry[2], NOBODY, entry[3], <<entry[3], 10>>)

(* store_init.  50 GB and 5 GB do not fit the fields.                      *)
Opened(next) ==
  [apps |-> [k \in DOMAIN Catalogue |-> Added(Catalogue[k], next + k - 1)],
   installed |-> <<>>, developers |-> <<>>, current |-> NOBODY, broken |-> FALSE,
   capacity |-> (50 * 1024) % WORD_MB, used |-> (5 * 1024) % WORD_MB]

StoreInit ==
  /\ store = Opened(1) /\ store_next = Len(Catalogue) + 1 /\ restarts = 0

-----------------------------------------------------------------------------
(* Operators named Bug_* are mutants of the definition that follows them.  *)

StoreReset ==
  /\ restarts < RESTARTS
  /\ store' = Opened(store_next)
  /\ store_next' = store_next + Len(Catalogue) /\ restarts' = restarts + 1

(* The place of an application, for callers that have its id.              *)
Place(id) == SelectInSeq(store.apps, LAMBDA app : app.id = id)

(* store_install_app.                                                      *)
Install(id) ==
  LET k == Place(id)
  IN  /\ k # 0 /\ ~store.apps[k].installed
      /\ Len(store.installed) < MAX_INSTALLED_APPS
      /\ (store.used + store.apps[k].size) % WORD_MB <= store.capacity
      /\ store' = [store EXCEPT !.apps[k].installed = TRUE,
                     !.installed = Append(@, id),
                     !.used = (@ + store.apps[k].size) % WORD_MB]
      /\ UNCHANGED <<store_next, restarts>>

(* The last entry is dropped, the one that goes is not overwritten.        *)
Bug_SwappedOut(s, id) == IF Contains(s, id) THEN Front(s) ELSE s

(* The entry of an id is overwritten by the last one, which goes.          *)
SwappedOut(s, id) ==
  LET k == SelectInSeq(s, LAMBDA entry : entry = id)
  IN  IF k = 0 THEN s ELSE Front([s EXCEPT ![k] = Last(s)])

(* store_uninstall_app.                                                    *)
Uninstall(id) ==
  LET k == Place(id)
  IN  /\ k # 0 /\ store.apps[k].installed
      /\ store' = [store EXCEPT !.apps[k].installed = FALSE,
                     !.installed = SwappedOut(@, id),
                     !.used = (@ - store.apps[k].size) % WORD_MB]
      /\ UNCHANGED <<store_next, restarts>>

(* store_register_developer; an address may be registered twice.           *)
Register(email) ==
  /\ Len(store.developers) < MAX_DEVELOPERS
  /\ store' = [store EXCEPT !.developers = Append(@, [email |-> email, apps |-> 0])]
  /\ UNCHANGED <<store_next, restarts>>

(* store_developer_login: the first account of the address, whatever the   *)
(* password.                                                               *)
Login(email) ==
  LET k == SelectInSeq(store.developers, LAMBDA dev : dev.email = email)
  IN  /\ k # 0
      /\ store' = [store EXCEPT !.current = k]
      /\ UNCHANGED <<store_next, restarts>>

Logout == store' = [store EXCEPT !.current = NOBODY] /\ UNCHANGED <<store_next, restarts>>

(* store_developer_publish_app: MAX_STORE_APPS is not looked at.           *)
Publish(category) ==
  /\ store.current # NOBODY
  /\ store' = IF Len(store.apps) >= MAX_STORE_APPS THEN [store EXCEPT !.broken = TRUE]
              ELSE [store EXCEPT
                     !.apps = Append(@, Listed(store_next, category, 0, store.current, 0, <<0, 1>>)),
                     !.developers[store.current].apps = @ + 1]
  /\ store_next' = store_next + 1
  /\ UNCHANGED restarts

(* store_add_review.                                                       *)
Review(id, rating) ==
  LET k   == Place(id)
      app == store.apps[k]
  IN  /\ k # 0 /\ Len(app.given) < MAX_REVIEWS /\ rating \in 1 .. 5
      /\ store' = [store EXCEPT !.apps[k] =
                     [app EXCEPT !.given = Append(@, rating), !.total = @ + rating,
                        !.votes = @ + 1, !.average = <<app.total + rating, app.votes + 1>>]]
      /\ UNCHANGED <<store_next, restarts>>

(* The applications that callers name: some of the catalogue, and all that *)
(* developers published.                                                   *)
Callable == {store.apps[k].id : k \in Touched \cup (Len(Catalogue) + 1 .. Len(store.apps))}

StoreNext ==
  /\ ~store.broken
  /\ \/ StoreReset \/ Logout
     \/ \E id \in Callable : Install(id) \/ Uninstall(id)
     \/ \E id \in Callable, rating \in Ratings : Review(id, rating)
     \/ \E email \in Emails : Register(email) \/ Login(email)
     \/ Publish("games")

StoreSpec == StoreInit /\ [][StoreNext]_store_vars

-----------------------------------------------------------------------------
StoreTypeOK ==
  /\ store.used \in 0 .. WORD_MB - 1 /\ store.capacity \in 0 .. WORD_MB - 1
  /\ Len(store.apps) <= MAX_STORE_APPS /\ Len(store.installed) <= MAX_INSTALLED_APPS
  /\ store.current \in 0 .. Len(store.developers) /\ store.broken \in BOOLEAN

(* store_filter_apps with filter_installed, filter_min_rating (both ratings*)
(* as quotients) and a category: the places it takes.  The search and the  *)
(* price are left out.                                                     *)
Filtered(apps, category, only_installed, min_rating) ==
  {k \in DOMAIN apps :
     /\ category = "all" \/ apps[k].category = category
     /\ only_installed => apps[k].installed
     /\ min_rating = 0 \/ apps[k].average[1] >= min_rating * apps[k].average[2]}

(* The sum of a sequence, and so the size of the applications at some      *)
(* places.                                                                 *)
SumOf(s) ==
  LET sum[k \in 0 .. Len(s)] == IF k = 0 THEN 0 ELSE sum[k - 1] + s[k]
  IN  sum[Len(s)]
SizeOf(apps, places) ==
  SumOf([k \in DOMAIN apps |-> IF k \in places THEN apps[k].size ELSE 0])

(* The list of installed applications, the flags that the pages draw and   *)
(* filter by, and the storage in use tell the same story after any order   *)
(* of installing, removing and publishing: each application once, the      *)
(* storage what was taken at the start and the sizes.  A developer's count *)
(* of applications is what the console lists for him.                      *)
BooksBalance ==
  LET apps  == store.apps
      shown == Filtered(apps, "all", TRUE, 0)
  IN  /\ {apps[k].id : k \in shown} = ToSet(store.installed)
      /\ Len(store.installed) = Cardinality(shown)
      /\ store.used = (5 * 1024 + SizeOf(apps, shown)) % WORD_MB
      /\ store.used <= store.capacity
      /\ \A d \in DOMAIN store.developers :
           store.developers[d].apps = Cardinality({k \in DOMAIN apps : apps[k].developer = d})

(* store.c:137 calls avg_rating the "Ortalama puan", the average rating: a *)
(* review of five stars never lowers it.                                   *)
RatingIsAverage ==
  [][\A k \in DOMAIN store.apps :
       LET new == store'.apps[k].given
           old == store.apps[k].average
           avg == store'.apps[k].average
       IN  UNCHANGED restarts /\ new # store.apps[k].given /\ Last(new) = 5
             => avg[1] * old[2] >= old[1] * avg[2]]_store_vars
=============================================================================
