---------------------------- MODULE PromptImages ----------------------------
(***************************************************************************)
(* The images of a prompt or of a tool result (fx-sdk.js).  Each image has *)
(* pixels, a reference under which the host can find them again, or both.  *)
(* When the images are too large, those with a reference leave without     *)
(* their pixels; when that does not help, the prompt is refused.  Pixels   *)
(* given as bytes or base64 are limited and sent at once; Blobs are read,  *)
(* and the host's resizeImage is called, one image after the other, while  *)
(* the caller goes on, reuses its buffers or cancels.                      *)
(*                                                                         *)
(* A size counts bytes.  The text of a prompt and what its frame adds are  *)
(* sizes too; the few bytes a reference takes in the frame are left out,   *)
(* and so are the kinds of bad input that throw before anything else, and  *)
(* the limit on the number of images.                                      *)
(***************************************************************************)
EXTENDS Integers, Sequences, SequencesExt, FiniteSetsExt

CONSTANTS
  Pictures,   \* what an image of an input may be: [src, size, ref], src "none" for a reference alone
  MaxImages,  \* bound: images of an input
  Texts,      \* sizes of the text beside them
  Resized,    \* sizes resizeImage may return
  MaxImage,   \* maxPromptImageBytes
  MaxTotal,   \* maxPromptImagesBytes: as base64 it is MaxFrame
  MaxFrame,   \* maxPromptFrameBytes, and maxPromptImagesDataBytes
  Envelope    \* promptFrameEnvelopeBytes

VARIABLES
  given,    \* the call: kind "prompt" or "tool", images, text, and whether there is a hook
  work,     \* the pass over the images: blocks left to prepare, those prepared, where it is
  sizes,    \* what each image measured once it was read and resized, 0 before
  reused,   \* the images whose buffer the caller filled again since the call
  last,     \* the image whose pixels the hook's output buffer holds, 0 before any
  result    \* "none", or how it ended: "sent", "refused", "cancelled" or "failed"

vars == <<given, work, sizes, reused, last, result>>

\* An image on its way: `at` is where its pixels are, in memory of its own, in the
\* caller's buffer, in the hook's, or nowhere.
Block(i) == LET p == given.images[i]
            IN [n |-> i, src |-> p.src, size |-> p.size, ref |-> p.ref,
                at |-> CASE p.src = "none" -> "none" [] p.src = "blob" -> "own" [] OTHER -> "caller"]
Bare(b) == [b EXCEPT !.size = 0, !.at = "none"]

\* omitReferencedImageData.
Omitted(bs) == [i \in DOMAIN bs |-> IF bs[i].ref THEN Bare(bs[i]) ELSE bs[i]]

Encoded(n) == 4 * ((n + 2) \div 3)
Bytes(bs) == FoldSeq(LAMBDA b, sum : b.size + sum, 0, bs)
ImageData(bs) == FoldSeq(LAMBDA b, sum : Encoded(b.size) + sum, 0, bs)
FrameSize(bs) == ImageData(bs) + given.text + Envelope

OmittedIf(too, bs) == IF too THEN Omitted(bs) ELSE bs
TooLarge(b) == b.size > MaxImage

\* Each image too large alone leaves its pixels behind when it has a reference.
Trimmed(bs) == [i \in DOMAIN bs |-> IF TooLarge(bs[i]) /\ bs[i].ref THEN Bare(bs[i]) ELSE bs[i]]

\* normalizePromptInput, without a hook: the limits on one image, all images and
\* the frame, in this order.
Totalled(bs) == OmittedIf(Bytes(bs) > MaxTotal, bs)
Framed(bs) == OmittedIf(FrameSize(bs) > MaxFrame, bs)
Limited(bs) == Framed(Totalled(Trimmed(bs)))
Fits(bs) == \A i \in DOMAIN bs : ~TooLarge(bs[i])
Accepts(bs) == Fits(Trimmed(bs)) /\ Bytes(Totalled(Trimmed(bs))) <= MaxTotal /\ FrameSize(Limited(bs)) <= MaxFrame

\* hostToolContent: the same limits on the images of a tool's result, counted as
\* base64, the last one for the result as a whole.
ToolLimited(bs) == LET all == OmittedIf(ImageData(Trimmed(bs)) > MaxFrame, Trimmed(bs))
                   IN Framed(all)
ToolAccepts(bs) == Fits(Trimmed(bs)) /\ FrameSize(ToolLimited(bs)) <= MaxFrame

-----------------------------------------------------------------------------
(* The call                                                                *)

Init ==
  /\ given \in [kind : {"prompt", "tool"}, images : BoundedSeq(Pictures, MaxImages), text : Texts, hook : BOOLEAN]
  /\ given.kind = "tool" => ~given.hook /\ \A i \in DOMAIN given.images : given.images[i].src # "blob"
  /\ work = [st |-> "called", left |-> <<>>, done |-> <<>>]
  /\ sizes = [i \in 1 .. MaxImages |-> 0]
  /\ reused = {} /\ last = 0 /\ result = "none"

Blocks == [i \in DOMAIN given.images |-> Block(i)]
Measured(bs) == [i \in 1 .. MaxImages |-> IF i \in DOMAIN bs THEN bs[i].size ELSE 0]
Pixels(bs) == \E i \in DOMAIN bs : bs[i].at # "none"
Async(bs) == (given.hook /\ Pixels(bs)) \/ \E i \in DOMAIN bs : bs[i].at # "none" /\ bs[i].src = "blob"

\* Broken form: the caller's bytes are used in place.
InPlace(bs) == bs

\* Pixels the caller can still change are copied before the call returns.
Snapshot(bs) == [i \in DOMAIN bs |-> IF bs[i].at = "caller" THEN [bs[i] EXCEPT !.at = "own"] ELSE bs[i]]

Settles(r) == result' = IF result = "none" THEN r ELSE result
Refuses(w) == Settles("refused") /\ work' = [w EXCEPT !.st = "over"]
Sends(bs) == Settles("sent") /\ work' = [st |-> "over", left |-> <<>>, done |-> bs]

\* With a hook the images are measured after it ran.
Refused == IF given.hook THEN given.text + Envelope > MaxFrame ELSE ~Accepts(Blocks)

Prompt ==
  /\ work.st = "called" /\ given.kind = "prompt"
  /\ LET bs == IF given.hook THEN Blocks ELSE Limited(Blocks)
     IN CASE Refused -> Refuses(work)
          [] ~Refused /\ Async(bs) -> work' = [st |-> "next", left |-> Snapshot(bs), done |-> <<>>] /\ UNCHANGED result
          [] OTHER -> Sends(bs)
  /\ sizes' = IF given.hook THEN sizes ELSE Measured(Blocks)
  /\ UNCHANGED <<given, reused, last>>

ToolResult ==
  /\ work.st = "called" /\ given.kind = "tool"
  /\ IF ToolAccepts(Blocks) THEN Sends(ToolLimited(Blocks)) ELSE Refuses(work)
  /\ sizes' = Measured(Blocks)
  /\ UNCHANGED <<given, reused, last>>

-----------------------------------------------------------------------------
(* materializePromptImages: an image at a time.  Those nothing is awaited  *)
(* for go on at once in the code and are a step of their own here.         *)

Now == Head(work.left)
\* isCancelled: the turn was cancelled, or its core exited.
Cancelled == result # "none"

\* A cancelled pass stops at its next look.
Stops == work' = [work EXCEPT !.st = "over"] /\ UNCHANGED <<sizes, result>>

\* An image is ready.  What it adds may take the pixels of those with a reference,
\* also of those not read yet.
Takes(b) ==
  LET image == IF TooLarge(b) /\ b.ref THEN Bare(b) ELSE b
      done == Append(work.done, image)
      over == Bytes(done) > MaxTotal
      w == [st |-> "next", left |-> OmittedIf(over, Tail(work.left)), done |-> OmittedIf(over, done)]
  IN /\ sizes' = [sizes EXCEPT ![b.n] = b.size]
     /\ IF TooLarge(image) \/ Bytes(w.done) > MaxTotal THEN Refuses(w) ELSE work' = w /\ UNCHANGED result

Begin ==
  /\ work.st = "next" /\ work.left # <<>>
  /\ CASE Cancelled -> Stops
       [] ~Cancelled /\ Now.at = "none" ->
            work' = [work EXCEPT !.left = Tail(@), !.done = Append(@, Now)] /\ UNCHANGED <<sizes, result>>
       [] ~Cancelled /\ Now.at # "none" /\ Now.src = "blob" -> work' = [work EXCEPT !.st = "read"] /\ UNCHANGED <<sizes, result>>
       [] ~Cancelled /\ Now.at # "none" /\ Now.src # "blob" /\ given.hook ->
            work' = [work EXCEPT !.st = "resize"] /\ UNCHANGED <<sizes, result>>
       [] OTHER -> Takes(Now)
  /\ UNCHANGED <<given, reused, last>>

BlobRead ==
  /\ work.st = "read"
  /\ CASE Cancelled -> Stops
       [] ~Cancelled /\ given.hook -> work' = [work EXCEPT !.st = "resize"] /\ UNCHANGED <<sizes, result>>
       [] OTHER -> Takes(Now)
  /\ UNCHANGED <<given, reused, last>>

\* Broken form: the hook's buffer is used in place.
Borrowed(b, n) == [b EXCEPT !.size = n, !.at = "hook"]

\* The hook fills its output buffer, which may be the one it returned before: the
\* pixels are copied out of it.
Copied(b, n) == [b EXCEPT !.size = n, !.at = "own"]

ResizeImage ==
  /\ work.st = "resize"
  /\ last' = Now.n
  /\ IF Cancelled THEN Stops ELSE \E n \in Resized : Takes(Copied(Now, n))
  /\ UNCHANGED <<given, reused>>

\* A Blob cannot be read, or the hook throws or returns no image.
Fails ==
  /\ work.st \in {"read", "resize"}
  /\ work' = [work EXCEPT !.st = "over"]
  /\ Settles("failed")
  /\ UNCHANGED <<given, sizes, reused, last>>

\* All are ready: the frame counts them as they are now.
Finish ==
  /\ work.st = "next" /\ work.left = <<>>
  /\ LET bs == Framed(work.done)
     IN CASE Cancelled -> work' = [work EXCEPT !.st = "over"] /\ UNCHANGED result
          [] ~Cancelled /\ FrameSize(bs) > MaxFrame -> Refuses(work)
          [] OTHER -> Sends(bs)
  /\ UNCHANGED <<given, sizes, reused, last>>

-----------------------------------------------------------------------------
(* Meanwhile                                                               *)

\* The turn ends at once; the pass goes on, until it looks after a cancel.
Cancel ==
  /\ work.st \in {"next", "read", "resize"} /\ result = "none"
  /\ result' = "cancelled"
  /\ UNCHANGED <<given, work, sizes, reused, last>>

CoreExits ==
  /\ work.st \in {"next", "read", "resize"} /\ result = "none"
  /\ result' = "failed"
  /\ UNCHANGED <<given, work, sizes, reused, last>>

Reuse ==
  /\ work.st \in {"next", "read", "resize"}
  /\ \E i \in DOMAIN given.images : given.images[i].src = "bytes" /\ i \notin reused /\ reused' = reused \cup {i}
  /\ UNCHANGED <<given, work, sizes, last, result>>

Next ==
  \/ Prompt \/ ToolResult
  \/ Begin \/ BlobRead \/ ResizeImage \/ Fails \/ Finish
  \/ Cancel \/ CoreExits \/ Reuse

Spec == Init /\ [][Next]_vars

-----------------------------------------------------------------------------
(* Properties                                                              *)

TypeOK ==
  /\ work.st \in {"called", "next", "read", "resize", "over"}
  /\ result \in {"none", "sent", "refused", "cancelled", "failed"}
  /\ reused \subseteq DOMAIN given.images /\ last \in 0 .. MaxImages

\* The pixels of image i are still those the caller passed, or the hook returned for it.
Intact(b) == b.at = "own" \/ (b.at = "caller" /\ b.n \notin reused) \/ (b.at = "hook" /\ last = b.n)

\* What the images come to that have pixels and satisfy Of, as they measured.
Total(Of(_)) ==
  FoldSet(LAMBDA i, sum : sum + Encoded(sizes[i]), given.text + Envelope,
                        {i \in DOMAIN given.images : Of(i)})
Small(i) == sizes[i] <= MaxImage
Referenced(i) == given.images[i].ref

\* What leaves is the same whether an image was given as bytes, as a Blob or through
\* a hook, in a prompt or in a tool's result: every image without a reference has its
\* own pixels; one with a reference has them when it is small enough and all such
\* images fit the frame together; and nothing is refused that fits when every image
\* with a reference leaves without pixels.
ImagesAsGiven ==
  LET kept(i) == sizes[i] > 0 /\ (Referenced(i) => Small(i) /\ Total(Small) <= MaxFrame)
      plain(i) == ~Referenced(i)
  IN /\ result = "sent" =>
          /\ Len(work.done) = Len(given.images)
          /\ \A i \in DOMAIN work.done :
               LET b == work.done[i]
               IN b.n = i /\ (b.at # "none" <=> kept(i)) /\ (b.at # "none" => Intact(b))
     /\ result = "refused" =>
          Total(plain) > MaxFrame \/ \E i \in DOMAIN given.images : plain(i) /\ ~Small(i)
=============================================================================
