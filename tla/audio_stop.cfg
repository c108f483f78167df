SPECIFICATION Spec
PROPERTY StopReplyMeansClosed
