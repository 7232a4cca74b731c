---------------------------- MODULE PlanetServer ----------------------------
(* bin/server.rs and backend/http_server.rs: one port takes every connection; *)
(* what does not ask for an upgrade in its first bytes is an HTTP request.    *)
(* A planet's map is slow to draw and is kept, at one scale, in a bucket      *)
(* (backend/gcs.rs).  A text is a model value, Plain its trimmed lower-case    *)
(* (for a UWP upper-case) form and UwpRead what the renderer reads in a UWP as  *)
(* it was sent; seeds and keys are the tuples they hash.  The bucket is        *)
(* external: any call may fail, a put at any time.                             *)
EXTENDS Naturals, FiniteSets, FiniteSetsExt

CONSTANTS Conns,     \* connections
          Calls,     \* [method, path, upgrade, prompt, params]; params: none that
                     \* serves, or [sector, hex, orbit, name, uwp, scale, drawable]
          NoParams,
          Plain,     \* [texts -> texts]
          UwpRead,   \* [UWP texts -> what worldmap's Uwp::parse makes of them]
          Canonical  \* PLANET_CANONICAL_SCALE

ASSUME PlanetAssumption ==
  /\ Canonical \in Nat \ {0}
  /\ \A call \in Calls : call.params = NoParams \/ call.params.scale \in Nat

VARIABLES
  enabled,   \* the bucket is configured and its auth provider came up
  stored,    \* the bucket: images by key
  conn,      \* call and phase of each connection
  image,     \* the canonical image a request goes on with
  reply,     \* code, or image, of each connection; NoReply before
  puts       \* uploads on their way: [key, image]

planetVars == <<enabled, stored, conn, image, reply, puts>>

NoReply == [code |-> 0, image |-> NoParams]
Status(n) == [code |-> n, image |-> NoParams]
NoCall == [call |-> NoParams, phase |-> "idle"]

\* seed.rs
SystemSeed(p) == <<Plain[p.sector], p.hex>>
PlanetSeed(p) == <<SystemSeed(p), p.orbit, Plain[p.name]>>
\* Mutant: the key is of the name and the UWP only.
CacheKey_NoSeed(p) == <<Plain[p.uwp], Plain[p.name]>>
\* planet_cache_key
CacheKey(p) == <<PlanetSeed(p), Plain[p.uwp], Plain[p.name]>>
\* generate_planet_png_scaled: the map of the seed and of the UWP as it parses
\* untrimmed (dashes dropped, eight characters taken), under the name as sent.
Drawn(p) == [seed |-> PlanetSeed(p), uwp |-> UwpRead[p.uwp], name |-> p.name, scale |-> Canonical]
\* What is drawn at the canonical scale is made smaller by a factor.
Downsample(img, scale) == [img EXCEPT !.scale = (@ * scale) \div Canonical]

PlanetInit(on) ==
  /\ enabled \in on
  /\ stored = [k \in {} |-> NoParams]
  /\ conn = [c \in Conns |-> NoCall]
  /\ image = [c \in Conns |-> NoParams]
  /\ reply = [c \in Conns |-> NoReply] /\ puts = {}

Goes(c, phase) == conn' = [conn EXCEPT ![c].phase = phase]
Replies(c, r) == reply' = [reply EXCEPT ![c] = r] /\ Goes(c, "closed")

\* dispatch and is_websocket_upgrade: one peek, of the bytes that are there.
Accept(c, call) ==
  /\ conn[c].phase = "idle"
  /\ \E seen \in IF call.prompt THEN {call.upgrade} ELSE {call.upgrade, FALSE} :
       conn' = [conn EXCEPT ![c] = [call |-> call, phase |->
         IF ~seen THEN "http"
         ELSE IF call.path \in {"/ws/simulator", "/ws/captains-log"} THEN call.path ELSE "/ws/trade"]]
  /\ UNCHANGED <<enabled, stored, image, reply, puts>>

Params(c) == conn[c].call.params
Serves(c) == Params(c) # NoParams

\* handle_http up to a handler, with the endpoints that keep nothing: the
\* request may also break off.
Route(c) ==
  /\ conn[c].phase = "http"
  /\ LET call == conn[c].call IN
     \/ Goes(c, "closed") /\ UNCHANGED reply
     \/ call.method = "OPTIONS" /\ Replies(c, Status(204))
     \/ call.method \notin {"OPTIONS", "GET", "HEAD"} /\ Replies(c, Status(405))
     \/ call.method \in {"GET", "HEAD"} /\
          \/ /\ call.path \in {"/api/system", "/api/system_svg"}
             /\ \E code \in IF Serves(c) THEN {200, 422, 500} ELSE {400} : Replies(c, Status(code))
          \/ /\ call.path = "/api/world"
             /\ IF Serves(c) /\ Params(c).scale >= 1 THEN Goes(c, "get") /\ UNCHANGED reply
                ELSE Replies(c, Status(400))
          \/ /\ call.path \notin {"/api/system", "/api/system_svg", "/api/world"}
             /\ Replies(c, Status(404))
  /\ UNCHANGED <<enabled, stored, image, puts>>

\* GcsClient::get: a hit, or how the image is to be drawn: kept or not.
Get(c) ==
  /\ conn[c].phase = "get"
  /\ \/ /\ enabled /\ CacheKey(Params(c)) \in DOMAIN stored
        /\ image' = [image EXCEPT ![c] = stored[CacheKey(Params(c))]]
        /\ Goes(c, "send")
     \/ /\ enabled /\ CacheKey(Params(c)) \notin DOMAIN stored
        /\ Goes(c, "MISS") /\ UNCHANGED image
     \/ enabled /\ Goes(c, "BYPASS") /\ UNCHANGED image
     \/ ~enabled /\ Goes(c, "DISABLED") /\ UNCHANGED image
  /\ UNCHANGED <<enabled, stored, reply, puts>>

\* Mutant: what is kept is what is sent.
Draw_AsSent(c) ==
  /\ conn[c].phase \in {"MISS", "BYPASS", "DISABLED"} /\ Params(c).drawable
  /\ image' = [image EXCEPT ![c] = Drawn(Params(c))]
  /\ puts' = IF conn[c].phase = "MISS"
             THEN puts \cup {[key |-> CacheKey(Params(c)), image |-> Downsample(Drawn(Params(c)), Min({Params(c).scale, Canonical})), by |-> c]}
             ELSE puts
  /\ Goes(c, "send")
  /\ UNCHANGED <<enabled, stored, reply>>
Draw(c) ==
  /\ conn[c].phase \in {"MISS", "BYPASS", "DISABLED"} /\ Params(c).drawable
  /\ image' = [image EXCEPT ![c] = Drawn(Params(c))]
  /\ puts' = IF conn[c].phase = "MISS"
             THEN puts \cup {[key |-> CacheKey(Params(c)), image |-> Drawn(Params(c)), by |-> c]} ELSE puts
  /\ Goes(c, "send")
  /\ UNCHANGED <<enabled, stored, reply>>

\* classify_render_error: a UWP that does not parse, or another failure.
DrawFails(c) ==
  /\ conn[c].phase \in {"MISS", "BYPASS", "DISABLED"}
  /\ Replies(c, Status(IF Params(c).drawable THEN 500 ELSE 422))
  /\ UNCHANGED <<enabled, stored, image, puts>>

\* Scales above the canonical one are served at it.
Send(c) ==
  /\ conn[c].phase = "send"
  /\ \/ Replies(c, [code |-> 200, image |-> Downsample(image[c], Min({Params(c).scale, Canonical}))])
     \/ Params(c).scale < Canonical /\ Replies(c, Status(500))
  /\ UNCHANGED <<enabled, stored, image, puts>>

\* GcsClient::put, spawned: the object is written over, or is not.
PutEnds(p) ==
  /\ puts' = puts \ {p}
  /\ \/ stored' = [k \in DOMAIN stored \cup {p.key} |-> IF k = p.key THEN p.image ELSE stored[k]]
     \/ UNCHANGED stored
  /\ UNCHANGED <<enabled, conn, image, reply>>

Handle(c) == Route(c) \/ Get(c) \/ Draw(c) \/ DrawFails(c) \/ Send(c)
PlanetNext == \/ \E c \in Conns : Handle(c) \/ \E call \in Calls : Accept(c, call)
              \/ \E p \in puts : PutEnds(p)
PlanetSpec == PlanetInit(BOOLEAN) /\ [][PlanetNext]_planetVars
-----------------------------------------------------------------------------
PlanetTypeOK ==
  /\ enabled \in BOOLEAN
  /\ \A c \in Conns :
       /\ conn[c].call \in Calls \cup {NoParams}
       /\ conn[c].phase \in {"idle", "http", "/ws/trade", "/ws/simulator", "/ws/captains-log",
                             "get", "MISS", "BYPASS", "DISABLED", "send", "closed"}
       /\ reply[c].code \in {0, 200, 204, 400, 404, 405, 422, 500}
       /\ conn[c].phase = "send" => image[c].scale = Canonical
  /\ \A p \in puts : p.by \in Conns /\ p.image.scale = Canonical

\* The maps asked for so far, and calls that mean one planet: place, orbit, name
\* and UWP, spelling apart.
AskedFor == {Params(c) : c \in {d \in Conns : /\ conn[d].phase # "idle" /\ Serves(d)
                                              /\ conn[d].call.path = "/api/world"}}
Alike(p, q) == PlanetSeed(p) = PlanetSeed(q) /\ Plain[p.uwp] = Plain[q.uwp]

SentMap(c) == reply[c].code = 200 /\ reply[c].image # NoParams
AtScale(c, img) == Downsample(img, Min({Params(c).scale, Canonical}))

\* Whoever drew it, and however many did at once: a map sent has the scale asked
\* for, and is drawn as some request spelled this very planet; where all spell
\* it one way, it is the map asked for (http_server.rs:380-446).
SentAlike ==
  \A c \in Conns : SentMap(c) =>
    \E p \in AskedFor : Alike(p, Params(c)) /\ reply[c].image = AtScale(c, Drawn(p))

\* The key is of "the inputs that determine the canonical-scale PNG bytes"
\* (http_server.rs:467-470): a map sent is the one its own query determines.
SentAsAsked ==
  \A c \in Conns : SentMap(c) => reply[c].image = AtScale(c, Drawn(Params(c)))

\* A kept image is never lost, and what a late upload writes over it shows the
\* same planet: it stays the same image unless two requests spelled the planet
\* differently (http_server.rs:393-411).
KeptImagesStand ==
  [][\A k \in DOMAIN stored :
       /\ k \in DOMAIN stored'
       /\ \/ stored'[k] = stored[k]
          \/ \E p, q \in AskedFor :
               Alike(p, q) /\ stored[k] = Drawn(p) /\ stored'[k] = Drawn(q)]_stored
=============================================================================
