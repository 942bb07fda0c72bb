----------------------------- MODULE StorePublish -----------------------------
(***************************************************************************)
(* `store` (cli/commands/store.ts): commands of one publisher, in several  *)
(* terminals or CI jobs, that sign in, sign out, publish a package or      *)
(* register a release kept on GitHub.  They share the credentials file and *)
(* the store; a request or its answer may be lost.  The store and GitHub   *)
(* are external: they do what the commands read in their answers.          *)
(*                                                                         *)
(* What a command said is `said`; "unsure" tells the user to check before  *)
(* retrying.  A bundle, a token and the bytes of a file are names.         *)
(***************************************************************************)
EXTENDS Integers, SequencesExt, FiniteSetsExt

CONSTANTS Jobs,        \* the commands
          Releases,    \* what the release on GitHub may be: [draft, embedded: how many assets it lists itself, assets]
          PageSize,    \* assets on a page of its list (100)
          Pages        \* pages that are looked at (10)

Bytes == {"p", "q", "r"}                   \* p and q are of one size
SizeOf(bytes) == IF bytes = "r" THEN 2 ELSE 1
Assets == [id: Nat, uploaded: BOOLEAN, digest: BOOLEAN, bytes: Bytes]

\* A version that no command published is by 0.
ASSUME StoreAssumption ==
    /\ Jobs \subseteq Nat \ {0} /\ PageSize \in Nat \ {0} /\ Pages \in Nat \ {0}
    /\ Releases \subseteq [draft: BOOLEAN, embedded: Nat, assets: Seq(Assets)] /\ Releases # {}

Unset == "none"
\* The public store, one named by --url, and one over plain http.
Shops == {"store", "other", "plain"}
Unreadable == [u \in Shops |-> "unreadable"]
\* A token of each store, and one that a header cannot carry.
ShopTokens == {"tStore", "tOther", "spaced"}
Issuer(token) == CASE token = "tStore" -> "store" [] token = "tOther" -> "other" [] OTHER -> Unset

VARIABLES cli,       \* per command: its arguments, what it has found out and what it said
          creds,     \* credentials.json: per store its token, Unset without one; or Unreadable
          shop,      \* the store: [owner, versions] of the one bundle that is published
          release,   \* the release on GitHub
          \* histories: the requests with a token from the file, the last sign-in said of each store, whether a
          \* save replaced what it had not read, and whether the release has changed
          sentFrom, lastSaid, overlapped, edited
storeVars == <<cli, creds, shop, release, sentFrom, lastSaid, overlapped, edited>>

------------------------------------------------------------------------------
\* The packages: which names a .hap and a pack.info give, the store's name is "b".
Package(hap, pack, code, big) == [hap |-> hap, pack |-> pack, code |-> code, big |-> big]
Packages == {Package("B", "b", 1, FALSE), Package(Unset, "b", 2, FALSE), Package("b", Unset, 2, TRUE),
             Package(Unset, Unset, 1, FALSE)}

\* What a command does not use is fixed.
Job(op, url, token, env, pkg, named, asset, local) ==
    [op |-> op, url |-> url, token |-> token, env |-> env, pkg |-> pkg, named |-> named, asset |-> asset,
     local |-> local, at |-> "start", read |-> <<>>, page |-> 0, found |-> <<>>, sha |-> Unset, said |-> Unset]
AnyPackage == CHOOSE p \in Packages : TRUE
Commands_ ==
    {Job("login", u[1], u[2], FALSE, AnyPackage, FALSE, 0, Unset) :
         u \in {<<"plain", "tStore">>, <<"other", "tOther">>} \cup ({"store"} \X ShopTokens)}
    \cup {Job("logout", u, Unset, FALSE, AnyPackage, FALSE, 0, Unset) : u \in Shops}
    \cup {Job("publish", "store", Unset, FALSE, u[1], u[2], 0, Unset) : u \in Packages \X BOOLEAN}
    \cup {Job("publish", "store", t, TRUE, AnyPackage, TRUE, 0, Unset) : t \in {"tStore", "tOther"}}
    \cup {Job("register", "store", Unset, FALSE, AnyPackage, TRUE, u[1], u[2]) : u \in {1, 3} \X {"p", "r", Unset}}
    \cup {Job("register", "store", Unset, FALSE, AnyPackage, FALSE, 1, Unset)}
Rank == [login |-> 1, logout |-> 2, publish |-> 3, register |-> 4]

StoreInit ==
    /\ cli \in [Jobs -> Commands_]
    /\ \A j, k \in Jobs : j < k => Rank[cli[j].op] <= Rank[cli[k].op]    \* the commands are interchangeable
    /\ creds \in {[u \in Shops |-> Unset], [u \in Shops |-> IF u = "store" THEN "tStore" ELSE Unset], Unreadable}
    /\ shop \in {[owner |-> o, versions |-> {}] : o \in {Unset, "other"}}
                \cup {[owner |-> "me", versions |-> {[code |-> 1, by |-> 0, asset |-> <<>>]}]}
    /\ release \in Releases
    /\ (\E j \in Jobs : cli[j].op = "register") \/ release = CHOOSE r \in Releases : TRUE
    /\ sentFrom = {} /\ overlapped = FALSE /\ edited = FALSE
    /\ lastSaid = IF creds = Unreadable THEN [u \in Shops |-> Unset] ELSE creds

Now_(j, at) == cli[j].at = at
Go_(j, at) == cli' = [cli EXCEPT ![j].at = at]
Say(j, what) == cli' = [cli EXCEPT ![j].at = "end", ![j].said = what]
Quiet == UNCHANGED <<creds, shop, release, sentFrom, lastSaid, overlapped, edited>>

\* networkError: only a timeout tells that the request may have been carried out.
networkError(method, timedOut) == IF timedOut /\ method # "GET" THEN "unsure" ELSE "unreachable"
Unheard_(j, method) == \E timedOut \in BOOLEAN : Say(j, networkError(method, timedOut))

------------------------------------------------------------------------------
\* The address and the token.
resolveStoreUrl(url) == url # "plain"
checkToken(token) == token # "spaced"

\* Mutant: a token of whatever store.
resolveStoreToken_Any(file, url) ==
    IF \E u \in Shops : file[u] # Unset THEN file[CHOOSE u \in Shops : file[u] # Unset] ELSE Unset
resolveStoreToken(file, url) == file[url]

\* client(): a publish or a registration starts with the token of ONIRO_STORE_TOKEN, else of the file.
client(j) ==
    /\ Now_(j, "start") /\ cli[j].op \in {"publish", "register"}
    /\ LET c == cli[j]
           next == IF c.op = "publish" THEN "identity" ELSE "release"
           stored == IF creds = Unreadable THEN Unset ELSE resolveStoreToken(creds, c.url)
       IN  IF ~resolveStoreUrl(c.url) \/ (~c.env /\ stored = Unset) THEN Say(j, "refused")
           ELSE cli' = [cli EXCEPT ![j].at = next, ![j].token = IF c.env THEN @ ELSE stored]
    /\ Quiet
\* A request of a command with its token.
Authorized(j) == sentFrom' = IF cli[j].env THEN sentFrom ELSE sentFrom \cup {<<cli[j].token, cli[j].url>>}

\* login: the store is asked whose token it is, and only then is it saved.
LoginStart(j) ==
    /\ Now_(j, "start") /\ cli[j].op = "login" /\ Quiet
    /\ IF resolveStoreUrl(cli[j].url) /\ checkToken(cli[j].token) THEN Go_(j, "me") ELSE Say(j, "refused")
\* Mutant: the token is saved whatever the store says of it.
Me_Unasked(j) == Now_(j, "me") /\ Quiet /\ Go_(j, "readCredentials")
Me(j) ==
    /\ Now_(j, "me") /\ Quiet
    /\ \/ Unheard_(j, "GET")
       \/ IF Issuer(cli[j].token) = cli[j].url THEN Go_(j, "readCredentials") ELSE Say(j, "refused")
LogoutStart(j) ==
    /\ Now_(j, "start") /\ cli[j].op = "logout" /\ Quiet
    /\ IF resolveStoreUrl(cli[j].url) THEN Go_(j, "readCredentials") ELSE Say(j, "refused")

\* saveStoreToken and removeStoreToken read the file, change one entry, and rename the whole over it.
readCredentials(j) ==
    /\ Now_(j, "readCredentials") /\ Quiet
    /\ CASE creds = Unreadable -> Say(j, "refused")
         [] cli[j].op = "logout" /\ creds[cli[j].url] = Unset -> Say(j, "nothing to do")
         [] OTHER -> cli' = [cli EXCEPT ![j].at = "writeCredentials", ![j].read = <<creds>>]
\* Mutant: a file with nothing else in it.
Changed_Only(file, url, token) == [u \in Shops |-> IF u = url THEN token ELSE Unset]
Changed(file, url, token) == [file EXCEPT ![url] = token]
writeCredentials(j) ==
    /\ Now_(j, "writeCredentials")
    /\ LET c == cli[j]
           token == IF c.op = "login" THEN c.token ELSE Unset
       IN  /\ creds' = Changed(c.read[1], c.url, token)
           /\ lastSaid' = [lastSaid EXCEPT ![c.url] = token]
           /\ overlapped' = (overlapped \/ c.read[1] # creds)
           /\ Say(j, IF c.op = "login" THEN "signed in" ELSE "signed out")
    /\ UNCHANGED <<shop, release, sentFrom, edited>>

------------------------------------------------------------------------------
\* The store: which requests it accepts, and what they change.
Known(j) == Issuer(cli[j].token) = cli[j].url
Codes == {v.code : v \in shop.versions}
Version(j) == [code |-> cli[j].pkg.code, by |-> j, asset |-> cli[j].found]
MayAdd(j) == shop.owner = "me" /\ \A c \in Codes : c < cli[j].pkg.code
Add(j) == shop' = [owner |-> "me", versions |-> shop.versions \cup {Version(j)}]

\* readPackageIdentity: the HAP's own name, else that of pack.info; in lower case.
Lower(name) == IF name = "B" THEN "b" ELSE name
\* Mutant: as the package spells it.
Identity_AsSpelt(pkg) == IF pkg.hap # Unset THEN pkg.hap ELSE pkg.pack
Identity(pkg) == IF pkg.hap # Unset THEN Lower(pkg.hap) ELSE Lower(pkg.pack)
readPackageIdentity(j) ==
    /\ Now_(j, "identity") /\ Quiet
    /\ IF Identity(cli[j].pkg) = Unset THEN Say(j, "refused") ELSE Go_(j, "limits")

\* limits() has no token; without an answer nothing is known of them.
Limits(j) ==
    /\ Now_(j, "limits") /\ Quiet
    /\ Go_(j, "own") \/ (cli[j].pkg.big /\ Say(j, "refused"))

\* ownApps, by which a publish creates the listing or adds a version to it.
Listed(j) == shop.owner = "me" /\ Identity(cli[j].pkg) = "b"
OwnApps(j) ==
    /\ Now_(j, "own") /\ Authorized(j)
    /\ \/ Unheard_(j, "GET")
       \/ IF ~Known(j) THEN Say(j, "refused")
          ELSE IF Listed(j) THEN Go_(j, "addVersion")
          ELSE IF ~cli[j].named THEN Say(j, "refused")
          ELSE Go_(j, "createApp")
    /\ UNCHANGED <<creds, shop, release, lastSaid, overlapped, edited>>

\* A POST: it does not arrive, or it is carried out (or refused) and its answer arrives or not.
Posted(j, accepts, effect, yes, no) ==
    /\ Authorized(j) /\ UNCHANGED <<creds, release, lastSaid, overlapped, edited>>
    /\ \/ Unheard_(j, "POST") /\ UNCHANGED shop
       \/ accepts /\ effect /\ (Unheard_(j, "POST") \/ Say(j, yes))
       \/ ~accepts /\ UNCHANGED shop /\ no
addVersion(j) ==
    /\ Now_(j, "addVersion")
    /\ Posted(j, Known(j) /\ ~cli[j].pkg.big /\ MayAdd(j), Add(j), "version", Say(j, "refused"))
createApp(j) ==
    /\ Now_(j, "createApp")
    /\ Posted(j, Known(j) /\ ~cli[j].pkg.big /\ shop.owner = Unset, Add(j), "created",
              IF Known(j) /\ shop.owner # Unset THEN Go_(j, "ownNow") ELSE Say(j, "refused"))

\* The name was taken: by whom, the publisher's own apps tell, if they can be had.
\* Mutant: it must be somebody else.
OwnNow_Other(j) == Now_(j, "ownNow") /\ Authorized(j) /\ Say(j, "taken by another")
                   /\ UNCHANGED <<creds, shop, release, lastSaid, overlapped, edited>>
OwnNow(j) ==
    /\ Now_(j, "ownNow") /\ Authorized(j)
    /\ \/ cli' = [cli EXCEPT ![j].at = "end", ![j].said = "taken by another", ![j].read = <<"unheard">>]
       \/ Say(j, IF Known(j) /\ Listed(j) THEN "taken by yourself" ELSE "taken by another")
    /\ UNCHANGED <<creds, shop, release, lastSaid, overlapped, edited>>

------------------------------------------------------------------------------
\* A release on GitHub: its asset is found, hashed, and registered.
Part(from, to) == SubSeq(release.assets, from, Min({to, Len(release.assets)}))
Asked(j, asset) == asset.id = cli[j].asset
\* An asset that is still being uploaded is refused.
Take(j, asset) == IF asset.uploaded THEN cli' = [cli EXCEPT ![j].at = "hash", ![j].found = <<asset>>] ELSE Say(j, "refused")
\* The first of a list that matches is taken.
Matches(j, list) == {k \in DOMAIN list : Asked(j, list[k])}
TakeFirst(j, list) == \E k \in Matches(j, list) : (\A i \in Matches(j, list) : k <= i) /\ Take(j, list[k])

resolveReleaseAsset(j) ==
    /\ Now_(j, "release") /\ Quiet
    /\ \/ Unheard_(j, "GET")
       \/ release.draft /\ Say(j, "refused")
       \/ ~release.draft /\ TakeFirst(j, Part(1, release.embedded))
       \/ /\ ~release.draft /\ Matches(j, Part(1, release.embedded)) = {}
          /\ cli' = [cli EXCEPT ![j].at = "page", ![j].page = 1]

Batch(page) == Part((page - 1) * PageSize + 1, page * PageSize)
\* Mutant: the last page is taken for one that ends the list.
LastPage_Early(j) == Len(Batch(cli[j].page)) <= PageSize \/ cli[j].page = Pages
LastPage(j) == Len(Batch(cli[j].page)) < PageSize \/ cli[j].page = Pages
nextPage(j) ==
    /\ Now_(j, "page") /\ Quiet
    /\ \/ Unheard_(j, "GET")
       \/ TakeFirst(j, Batch(cli[j].page))
       \/ /\ Matches(j, Batch(cli[j].page)) = {}
          /\ IF LastPage(j) THEN Say(j, "no such asset") ELSE cli' = [cli EXCEPT ![j].page = @ + 1]

\* assetSha256: of a local copy, else as GitHub has it, else of a download.
assetSha256(j) ==
    /\ Now_(j, "hash") /\ Quiet
    /\ LET asset == cli[j].found[1]
           local == cli[j].local
           Hashed(bytes) == cli' = [cli EXCEPT ![j].at = "register", ![j].sha = bytes]
       IN  CASE local # Unset -> IF SizeOf(local) = SizeOf(asset.bytes) /\ (asset.digest => local = asset.bytes)
                                   THEN Hashed(local) ELSE Say(j, "refused")
             [] local = Unset /\ asset.digest -> Hashed(asset.bytes)
             [] OTHER -> Unheard_(j, "GET") \/ Say(j, "refused") \/ Hashed(asset.bytes)

\* The store fetches the asset itself, and compares.  One that it has already is left as it is.
Has_(asset) == \E v \in shop.versions : v.asset = <<asset>>
Accepts(j) ==
    LET asset == cli[j].found[1]
    IN  /\ Known(j) /\ asset \in ToSet(release.assets) /\ cli[j].sha = asset.bytes
        /\ \/ shop.owner = Unset /\ cli[j].named
           \/ MayAdd(j)
registerRelease(j) ==
    /\ Now_(j, "register")
    /\ IF Known(j) /\ Has_(cli[j].found[1])
       THEN Posted(j, TRUE, UNCHANGED shop, "already registered", FALSE)
       ELSE Posted(j, Accepts(j), Add(j), "registered", Say(j, "refused"))

\* Somebody deletes an asset of the release.
DeleteAsset ==
    /\ ~edited /\ release.assets # <<>> /\ edited' = TRUE
    /\ \E j \in Jobs : cli[j].op = "register" /\ ~Now_(j, "end")    \* nobody else looks
    /\ \E k \in DOMAIN release.assets : release' = [release EXCEPT !.assets = RemoveAt(@, k)]
    /\ UNCHANGED <<cli, creds, shop, sentFrom, lastSaid, overlapped>>

StoreNext ==
    \/ \E j \in Jobs :
          \/ client(j) \/ LoginStart(j) \/ Me(j) \/ LogoutStart(j) \/ readCredentials(j) \/ writeCredentials(j)
          \/ readPackageIdentity(j) \/ Limits(j) \/ OwnApps(j) \/ addVersion(j) \/ createApp(j) \/ OwnNow(j)
          \/ resolveReleaseAsset(j) \/ nextPage(j) \/ assetSha256(j) \/ registerRelease(j)
    \/ DeleteAsset

StoreSpec == StoreInit /\ [][StoreNext]_storeVars

------------------------------------------------------------------------------
\* A token that was saved is only ever sent to the store that issued it.
TokensGoHome == \A s \in sentFrom : Issuer(s[1]) = s[2]

\* What login and logout said of each store is what the file holds, also of the other stores, as long as no
\* two commands save at once.
SignInsAreKept == (creds # Unreadable /\ ~overlapped) => creds = lastSaid

\* A command that reports what it published is right, one that reports a refusal has published nothing, and whose
\* a name is that was taken meanwhile is the truth, unless that question had no answer.
Mine(j) == {v \in shop.versions : v.by = j}
PublishIsTold ==
    \A j \in Jobs :
        CASE cli[j].said \in {"created", "version", "registered"} -> shop.owner = "me" /\ Mine(j) # {}
          [] cli[j].said = "already registered" -> Has_(cli[j].found[1])
          [] cli[j].said \in {"refused", "no such asset"} -> Mine(j) = {}
          [] cli[j].said = "taken by yourself" -> shop.owner = "me" /\ Mine(j) = {}
          [] cli[j].said = "taken by another" -> (shop.owner = "other" \/ cli[j].read # <<>>) /\ Mine(j) = {}
          [] OTHER -> TRUE

\* What was registered is the asset that was asked for, whole and in a published release; and an asset that lies
\* within the pages is found, unless the list changed meanwhile.
RegisteredIsAsked ==
    \A j \in Jobs : cli[j].op = "register" =>
        /\ \A v \in Mine(j) : Asked(j, v.asset[1]) /\ v.asset[1].uploaded /\ ~release.draft
        /\ (cli[j].said = "no such asset" /\ ~edited) =>
              ~ \E k \in 1..(PageSize * Pages) : k \in DOMAIN release.assets /\ Asked(j, release.assets[k])

StoreIsTold == TokensGoHome /\ SignInsAreKept /\ PublishIsTold /\ RegisteredIsAsked
==============================================================================
