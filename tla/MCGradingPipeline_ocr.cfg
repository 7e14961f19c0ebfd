\* OCR may fail.
SPECIFICATION PipelineSpec
CONSTANTS
    Attempts = 3
    Backoff = 1
    Timeout = 2
    Threshold = 3
    ResetTime = 4
PROPERTY OcrFailureIsReviewed
