------------------------------- MODULE RkCamera -------------------------------
(***************************************************************************)
(* platform/vendors/rockchip: one device of the RV1126B camera HAL         *)
(* (camera_rockchip.c).  It streams raw frames to a callback from a        *)
(* capture thread, or encoded packets from a channel bound to the encoder; *)
(* either may be previewed, by a thread that sends copies of the frames or *)
(* by a second channel bound to the screen.                                *)
(*                                                                         *)
(* The application makes one call at a time.  A call is atomic except      *)
(* where it waits for a thread; hw is what the vendor's layer holds for    *)
(* the device, the flags of the device are named after it.  A block of the *)
(* preview pool is known by the number of its pool.                        *)
(***************************************************************************)
EXTENDS Integers, Sequences

CONSTANT MaxPools   \* bound on the preview pools ever created

VARIABLES
  hw,          \* channels, bindings, references held
  flags,       \* dev_enabled, chn_enabled, encoded_*, preview_*: by name
  streaming, encoded,
  running,     \* running: the capture thread was created and shall run
  on, direct,  \* preview_on, preview_direct
  mailbox,     \* prv_blk if prv_filled, or 0
  pool,        \* prv_pool, or 0
  pools,       \* pools created so far
  capture,     \* place of the capture thread
  taken,       \* the block it holds, or 0
  preview,     \* place of the preview thread
  shown,       \* the block it holds, or 0
  call         \* the rest of the call being made, or <<>>

calls == <<call>>
threads == <<mailbox, capture, taken, preview, shown>>
vars == <<hw, flags, streaming, encoded, running, on, direct, pool, pools, threads, call>>

RawSteps == <<"sys", "dev", "rawchn">>
EncodedSteps == <<"sys", "dev", "encchn", "venc", "bind">>
Reached(steps, n) == {steps[i] : i \in 1 .. n}

Init ==
  /\ hw = {} /\ flags = {} /\ streaming = FALSE /\ encoded = FALSE /\ running = FALSE
  /\ on = FALSE /\ direct = FALSE /\ mailbox = 0 /\ pool = 0 /\ pools = 0
  /\ capture = "off" /\ taken = 0 /\ preview = "off" /\ shown = 0 /\ call = <<>>

Idle == call = <<>>
Busy == streaming \/ encoded

-----------------------------------------------------------------------------
(* Calls *)

\* Mutant of Start: a failure leaves the device of the sensor enabled.
StartKeepsDev(aiq, n, threaded) ==
  /\ Idle /\ ~Busy
  /\ IF n = Len(RawSteps)
     THEN /\ hw' = hw \cup Reached(RawSteps, n) \cup aiq /\ flags' = flags \cup Reached(RawSteps, n) \cup aiq
          /\ streaming' = TRUE /\ running' = threaded
          /\ capture' = IF threaded THEN "get" ELSE "off"
     ELSE /\ hw' = (hw \cup Reached(RawSteps, n)) \ {"sys", "rawchn", "aiq"}
          /\ UNCHANGED <<flags, streaming, running, capture>>
  /\ UNCHANGED <<encoded, on, direct, pool, pools, mailbox, taken, preview, shown, call>>

\* start() with or without 3A gets as far as step n; a failure, which may be that
\* of the thread, gives up what has a flag.
Start(aiq, n, threaded) ==
  LET got == Reached(RawSteps, n) \cup aiq IN
  /\ Idle /\ ~Busy
  /\ \/ /\ n = Len(RawSteps)
        /\ hw' = hw \cup got /\ flags' = flags \cup got
        /\ streaming' = TRUE /\ running' = threaded
        /\ capture' = IF threaded THEN "get" ELSE "off"
     \/ /\ n < Len(RawSteps) \/ threaded
        /\ hw' = (hw \cup got) \ (flags \cup got) /\ flags' = {}
        /\ UNCHANGED <<streaming, running, capture>>
  /\ UNCHANGED <<encoded, on, direct, pool, pools, mailbox, taken, preview, shown, call>>

\* encoded_start(), with encoded_cleanup() after a failure.
EncodedStart(aiq, n) ==
  LET got == Reached(EncodedSteps, n) \cup aiq IN
  /\ Idle /\ ~Busy
  /\ IF n = Len(EncodedSteps)
     THEN hw' = hw \cup got /\ flags' = flags \cup got /\ encoded' = TRUE
     ELSE hw' = (hw \cup got) \ (flags \cup got) /\ flags' = {} /\ UNCHANGED encoded
  /\ UNCHANGED <<streaming, running, on, direct, pool, pools, threads, call>>

\* direct_preview_start(): the second channel, then its binding.
DirectPreviewStart(ok) ==
  /\ Idle /\ encoded /\ ~on
  /\ IF ok THEN /\ hw' = hw \cup {"prvchn", "prvbind"} /\ flags' = flags \cup {"prvchn", "prvbind"}
                /\ on' = TRUE /\ direct' = TRUE
     ELSE UNCHANGED <<hw, flags, on, direct>>
  /\ UNCHANGED <<streaming, encoded, running, pool, pools, threads, call>>

\* preview_start(): a pool and a thread; either may fail.
PreviewStart(ok) ==
  /\ Idle /\ streaming /\ ~encoded /\ ~on /\ pools < MaxPools
  /\ mailbox' = 0
  /\ IF ok THEN /\ pools' = pools + 1 /\ pool' = pools + 1 /\ on' = TRUE /\ preview' = "check"
     ELSE UNCHANGED <<pools, pool, on, preview>>
  /\ UNCHANGED <<hw, flags, streaming, encoded, running, direct, capture, taken, shown, call>>

\* The calls that tear down, as the sequences of what they do.
PreviewSteps == <<"unpreview", "joinPreview", "drain", "destroyPool">>
StopSteps == <<"halt", "joinCapture", "releaseRaw">>

PreviewStop ==
  /\ Idle /\ call' = PreviewSteps
  /\ UNCHANGED <<hw, flags, streaming, encoded, running, on, direct, pool, pools, threads>>

Stop ==
  /\ Idle /\ streaming /\ call' = PreviewSteps \o StopSteps
  /\ UNCHANGED <<hw, flags, streaming, encoded, running, on, direct, pool, pools, threads>>

\* Mutant of EncodedStop: the preview of the channel is forgotten.
EncodedStopOnly ==
  /\ Idle /\ encoded /\ call' = <<"cleanup">>
  /\ UNCHANGED <<hw, flags, streaming, encoded, running, on, direct, pool, pools, threads>>

EncodedStop ==
  /\ Idle /\ encoded /\ call' = PreviewSteps \o <<"cleanup">>
  /\ UNCHANGED <<hw, flags, streaming, encoded, running, on, direct, pool, pools, threads>>

-----------------------------------------------------------------------------
(* The steps of preview_stop(), stop() and encoded_cleanup() *)

At(step) == ~Idle /\ Head(call) = step
Done == call' = Tail(call)

\* Nothing is previewed, or the channel is unbound: the rest is not for us.
PreviewEnds ==
  /\ At("unpreview") /\ (direct \/ ~on)
  /\ call' = SubSeq(call, 5, Len(call))
  /\ IF direct
     THEN /\ hw' = hw \ ({"prvchn", "prvbind"} \cap flags)
          /\ flags' = flags \ {"prvchn", "prvbind"} /\ on' = FALSE /\ direct' = FALSE
     ELSE UNCHANGED <<hw, flags, on, direct>>
  /\ UNCHANGED <<streaming, encoded, running, pool, pools, threads>>

\* Mutant of PreviewOff: nobody wakes the thread.
PreviewOffSilent ==
  /\ At("unpreview") /\ ~direct /\ on /\ Done
  /\ on' = FALSE /\ UNCHANGED preview
  /\ UNCHANGED <<hw, flags, streaming, encoded, running, direct, pool, pools, mailbox, capture,
                 taken, shown>>

\* preview_on is reset and the thread woken, under prv_mtx.
PreviewOff ==
  /\ At("unpreview") /\ ~direct /\ on /\ Done
  /\ on' = FALSE /\ preview' = IF preview = "sleep" THEN "check" ELSE preview
  /\ UNCHANGED <<hw, flags, streaming, encoded, running, direct, pool, pools, mailbox, capture,
                 taken, shown>>

\* Mutant of JoinPreview: the thread is not waited for.
JoinPreviewNot ==
  /\ At("joinPreview") /\ Done
  /\ UNCHANGED <<hw, flags, streaming, encoded, running, on, direct, pool, pools, threads>>

JoinPreview ==
  /\ At("joinPreview") /\ preview = "off" /\ Done
  /\ UNCHANGED <<hw, flags, streaming, encoded, running, on, direct, pool, pools, threads>>

Drain ==
  /\ At("drain") /\ mailbox' = 0 /\ Done
  /\ UNCHANGED <<hw, flags, streaming, encoded, running, on, direct, pool, pools, capture, taken,
                 preview, shown>>

DestroyPool ==
  /\ At("destroyPool") /\ pool' = 0 /\ Done
  /\ UNCHANGED <<hw, flags, streaming, encoded, running, on, direct, pools, threads>>

Halt ==
  /\ At("halt") /\ streaming' = FALSE /\ running' = FALSE /\ Done
  /\ UNCHANGED <<hw, flags, encoded, on, direct, pool, pools, threads>>

JoinCapture ==
  /\ At("joinCapture") /\ capture = "off" /\ Done
  /\ UNCHANGED <<hw, flags, streaming, encoded, running, on, direct, pool, pools, threads>>

\* The rest of stop(), or encoded_cleanup(): what has a flag is given up.
Release ==
  /\ At("releaseRaw") \/ At("cleanup")
  /\ hw' = hw \ (flags \ {"prvchn", "prvbind"}) /\ flags' = flags \cap {"prvchn", "prvbind"}
  /\ encoded' = FALSE /\ Done
  /\ UNCHANGED <<streaming, running, on, direct, pool, pools, threads>>

-----------------------------------------------------------------------------
(* The capture thread *)

Capture(from, to) == capture = from /\ capture' = to
CaptureVars == <<hw, flags, streaming, encoded, running, on, direct, pool, pools, preview, shown,
                 call>>

\* running is looked at, a frame is waited for; preview_on is looked at.
CaptureFrame ==
  /\ capture = "get"
  /\ capture' = IF ~running THEN "off" ELSE IF on THEN "block" ELSE "callback"
  /\ UNCHANGED <<CaptureVars, mailbox, taken>>

\* The frame is copied to a block of the pool, unless there is none.
TakeBlock ==
  /\ \/ Capture("block", "post") /\ pool # 0 /\ taken' = pool
     \/ Capture("block", "callback") /\ UNCHANGED taken
  /\ UNCHANGED <<CaptureVars, mailbox>>

\* The block goes into the mailbox, or back to the pool when that is taken.
PostBlock ==
  /\ Capture("post", "callback") /\ taken' = 0
  /\ mailbox' = IF mailbox = 0 THEN taken ELSE mailbox
  /\ preview' = IF mailbox = 0 /\ preview = "sleep" THEN "check" ELSE preview
  /\ UNCHANGED <<hw, flags, streaming, encoded, running, on, direct, pool, pools, shown, call>>

\* The callback returns, the frame goes back to the channel.
Callback ==
  /\ Capture("callback", "get") /\ UNCHANGED <<CaptureVars, mailbox, taken>>

(* The preview thread *)

PreviewTakes ==
  /\ preview = "check"
  /\ IF ~on THEN preview' = "off" /\ UNCHANGED <<mailbox, shown>>
     ELSE IF mailbox = 0 THEN preview' = "sleep" /\ UNCHANGED <<mailbox, shown>>
     ELSE preview' = "send" /\ shown' = mailbox /\ mailbox' = 0
  /\ UNCHANGED <<hw, flags, streaming, encoded, running, on, direct, pool, pools, capture, taken,
                 call>>

PreviewSends ==
  /\ preview = "send" /\ preview' = "check" /\ shown' = 0
  /\ UNCHANGED <<hw, flags, streaming, encoded, running, on, direct, pool, pools, mailbox,
                 capture, taken, call>>

CallStep ==
  \/ PreviewEnds \/ PreviewOff \/ JoinPreview \/ Drain \/ DestroyPool \/ Halt \/ JoinCapture
  \/ Release
CaptureStep == CaptureFrame \/ TakeBlock \/ PostBlock \/ Callback
PreviewStep == PreviewTakes \/ PreviewSends

Next ==
  \/ \E aiq \in {{}, {"aiq"}} :
       \/ \E n \in 0 .. Len(RawSteps), threaded \in BOOLEAN : Start(aiq, n, threaded)
       \/ \E n \in 0 .. Len(EncodedSteps) : EncodedStart(aiq, n)
  \/ \E ok \in BOOLEAN : DirectPreviewStart(ok) \/ PreviewStart(ok)
  \/ PreviewStop \/ Stop \/ EncodedStop
  \/ CallStep \/ CaptureStep \/ PreviewStep

Spec == Init /\ [][Next]_vars

\* GetChnFrame and SendFrame time out, so every thread goes on.
Fairness == WF_vars(CallStep) /\ WF_vars(CaptureStep) /\ WF_vars(PreviewStep)

-----------------------------------------------------------------------------
(* Correctness. *)

(* Between two calls a device that does not stream holds nothing and has   *)
(* no thread: however far a start came, and whatever was previewed.        *)
NothingLeft ==
  Idle /\ ~Busy => /\ hw = {} /\ flags = {} /\ ~on /\ pool = 0
                   /\ capture = "off" /\ preview = "off"

(* What is used is there: a binding has both ends, a channel its device, a *)
(* device the initialised system, a capture thread its channel.            *)
UsesWhatIsThere ==
  /\ "bind" \in hw => {"encchn", "venc"} \subseteq hw
  /\ "prvbind" \in hw => "prvchn" \in hw
  /\ hw \cap {"rawchn", "encchn", "prvchn"} # {} => "dev" \in hw
  /\ hw \cap {"dev", "venc"} # {} => "sys" \in hw
  /\ capture # "off" => "rawchn" \in hw

(* While a block is being sent, there is a pool: it is destroyed only when  *)
(* the preview thread has been joined.                                     *)
PooledWhileShown == shown # 0 => pool # 0

(* Every stop ends: no thread sleeps through it.                           *)
CallsReturn == ~Idle ~> Idle
===============================================================================
